---------------------------- MODULE Spec2Model ----------------------------
(***************************************************************************)
(* Model of the editing core of bedrock (src/src/editor_core.rs): the text *)
(* transaction engine (EditorSnapshot) and the markdown command builder,   *)
(* and of the live formatter and the vault indexer of the application      *)
(* (src/src/app.rs).                                                       *)
(*                                                                         *)
(* A text is a sequence of one-byte characters; offsets are byte offsets   *)
(* counted from 0, as in the source.  Slice(t, a, b) is the source's       *)
(* t[a..b].  Every character drawn by the model is a single byte, so each  *)
(* offset is a character boundary.                                         *)
(***************************************************************************)
EXTENDS Integers, Sequences, FiniteSets, TLC

VARIABLES
    text,        \* EditorSnapshot.text
    selection,   \* EditorSnapshot.selection
    revision,    \* EditorSnapshot.revision
    call,        \* the last operation called on the snapshot, with its arguments
    pre,         \* the snapshot as it was when that operation was called
    ret,         \* what that operation returned
    caret_pos,   \* the caret the application last formatted the text with (caret_pos)
    parsed_html, \* the formatted text the application shows (parsed_html)
    files,       \* the note paths of the vault, as read_dir listed them (files)
    note_texts,  \* the text of each note the application holds (note_texts)
    metadata_cache, \* the MetadataCacheState last built (metadata_cache)
    current_file, \* the path of the note that is open, "" when none is (current_file)
    fs,          \* the host's file system: the node at each path that exists
    import,      \* the call of import_obsidian_vault_notes that is running or ended last
    vault_path,  \* the path of the vault that is open, "" when none is (vault_path)
    save_timeout_id, \* the handle of the save timer, if one was set (save_timeout_id)
    timeouts,    \* the timers of the window that are pending, each with its callback's captures
    write_calls, \* the calls of write_file made so far, in order
    selection_restore_ticket, \* selection_restore_ticket
    selection_sync_ticket,    \* selection_sync_ticket
    frames,      \* the animation-frame callbacks that are pending
    frame_ran,   \* the animation-frame callback that ran last, and whether it took effect
    dom_selection, \* the selection in the editor element, if there is one
    is_composing,  \* is_composing
    composition_dirty, \* composition_dirty
    image_preview_cache,   \* image_preview_cache
    image_preview_loading, \* image_preview_loading
    image_preview_failed   \* image_preview_failed

vars == <<text, selection, revision, call, pre, ret, caret_pos, parsed_html,
          files, note_texts, metadata_cache, current_file, fs, import,
          vault_path, save_timeout_id, timeouts, write_calls, selection_restore_ticket,
          selection_sync_ticket, frames, frame_ran, dom_selection, is_composing,
          composition_dirty, image_preview_cache, image_preview_loading,
          image_preview_failed>>

\* the application's view of the vault
vault == <<files, note_texts, metadata_cache, current_file>>

\* the host's side: the file system and the import
host == <<fs, import>>

\* the editor's variables, which the host leaves alone
editor == <<text, selection, revision, call, pre, ret, caret_pos, parsed_html>>

\* what the handlers of the application defer, and what they defer it on: the
\* save timer, the animation-frame callbacks, the composition and the image
\* loads
deferred == <<vault_path, save_timeout_id, timeouts, write_calls, selection_restore_ticket,
              selection_sync_ticket, frames, frame_ran, dom_selection, is_composing,
              composition_dirty, image_preview_cache, image_preview_loading,
              image_preview_failed>>

-----------------------------------------------------------------------------
(* Bounds of the model *)

\* the number of imports that are followed
MaxImports == 2

\* the tickets of the animation-frame callbacks are followed up to MaxTicket
MaxTicket == 3

\* longest text the snapshot holds in the engine specification
MaxLen == 2
\* the revision counter is followed up to this value
MaxRevision == 2
\* longest text the snapshot holds in the command specification
MaxCmdLen == 14

-----------------------------------------------------------------------------
(* Sequences as strings *)

Min(a, b) == IF a <= b THEN a ELSE b

\* text[a..b] of the source: bytes a (included) to b (excluded)
Slice(t, a, b) == SubSeq(t, a + 1, b)

\* all sequences over S of length at most n
RECURSIVE SeqsUpTo(_, _)
SeqsUpTo(S, n) ==
    IF n = 0 THEN {<<>>}
    ELSE LET shorter == SeqsUpTo(S, n - 1)
         IN  shorter \cup {Append(s, c) : s \in {x \in shorter : Len(x) = n - 1}, c \in S}

-----------------------------------------------------------------------------
(* Selection *)

Selection_new(start, end) ==
    IF start <= end THEN [start |-> start, end |-> end]
    ELSE [start |-> end, end |-> start]

Selection_cursor(pos) == [start |-> pos, end |-> pos]

Selection_is_cursor(sel) == sel.start = sel.end

\* Selection_clamp without the bound: the selection is only put in order
Selection_clamp_unbounded(sel, len) == Selection_new(sel.start, sel.end)

Selection_clamp(sel, len) == Selection_new(Min(sel.start, len), Min(sel.end, len))

-----------------------------------------------------------------------------
(* TextChange, Transaction.  An Option<Selection> is the empty set (None)  *)
(* or a singleton (Some).                                                  *)

TextChange_new(start, end, insert) == [start |-> start, end |-> end, insert |-> insert]

None == {}
Some(x) == {x}
Unwrap(o) == CHOOSE x \in o : TRUE

Transaction_single(change, selection_after, origin, label) ==
    [changes |-> <<change>>, selection_after |-> selection_after,
     origin |-> origin, label |-> label]

-----------------------------------------------------------------------------
(* normalize_changes *)

\* the sort key (change.start, change.end), compared strictly
KeyLess(c, d) == c.start < d.start \/ (c.start = d.start /\ c.end < d.end)

\* c placed after every element whose key is not greater: the sort is stable
RECURSIVE InsertByKey(_, _)
InsertByKey(sorted, c) ==
    IF sorted = <<>> THEN <<c>>
    ELSE IF KeyLess(c, Head(sorted)) THEN <<c>> \o sorted
    ELSE <<Head(sorted)>> \o InsertByKey(Tail(sorted), c)

RECURSIVE SortByKey(_)
SortByKey(changes) ==
    IF changes = <<>> THEN <<>>
    ELSE InsertByKey(SortByKey(SubSeq(changes, 1, Len(changes) - 1)),
                     changes[Len(changes)])

SetMin(S) == CHOOSE x \in S : \A y \in S : x <= y

\* normalize_changes with the overlap test next.start <= first.end
normalize_changes_touching(changes, len) ==
    LET sorted == SortByKey(changes)
        bad == {i \in 1..Len(sorted) : sorted[i].start > sorted[i].end \/ sorted[i].end > len}
        clash == {i \in 1..(Len(sorted) - 1) : sorted[i + 1].start <= sorted[i].end}
    IN  IF bad # {}
        THEN [kind |-> "InvalidRange", changes |-> <<>>,
              info |-> <<sorted[SetMin(bad)].start, sorted[SetMin(bad)].end, len>>]
        ELSE IF clash # {}
        THEN [kind |-> "OverlappingChanges", changes |-> <<>>,
              info |-> <<sorted[SetMin(clash)].start, sorted[SetMin(clash)].end,
                         sorted[SetMin(clash) + 1].start, sorted[SetMin(clash) + 1].end>>]
        ELSE [kind |-> "Ok", changes |-> sorted, info |-> <<>>]

\* normalize_changes without the sort: the changes are checked as listed
normalize_changes_unsorted(changes, len) ==
    LET sorted == changes
        bad == {i \in 1..Len(sorted) : sorted[i].start > sorted[i].end \/ sorted[i].end > len}
        clash == {i \in 1..(Len(sorted) - 1) : sorted[i + 1].start < sorted[i].end}
    IN  IF bad # {}
        THEN [kind |-> "InvalidRange", changes |-> <<>>,
              info |-> <<sorted[SetMin(bad)].start, sorted[SetMin(bad)].end, len>>]
        ELSE IF clash # {}
        THEN [kind |-> "OverlappingChanges", changes |-> <<>>,
              info |-> <<sorted[SetMin(clash)].start, sorted[SetMin(clash)].end,
                         sorted[SetMin(clash) + 1].start, sorted[SetMin(clash) + 1].end>>]
        ELSE [kind |-> "Ok", changes |-> sorted, info |-> <<>>]

normalize_changes(changes, len) ==
    LET sorted == SortByKey(changes)
        bad == {i \in 1..Len(sorted) : sorted[i].start > sorted[i].end \/ sorted[i].end > len}
        clash == {i \in 1..(Len(sorted) - 1) : sorted[i + 1].start < sorted[i].end}
    IN  IF bad # {}
        THEN LET change == sorted[SetMin(bad)]
             IN  [kind |-> "InvalidRange", changes |-> <<>>,
                  info |-> <<change.start, change.end, len>>]
        ELSE IF clash # {}
        THEN LET first == sorted[SetMin(clash)]
                 next == sorted[SetMin(clash) + 1]
             IN  [kind |-> "OverlappingChanges", changes |-> <<>>,
                  info |-> <<first.start, first.end, next.start, next.end>>]
        ELSE [kind |-> "Ok", changes |-> sorted, info |-> <<>>]

-----------------------------------------------------------------------------
(* apply_changes_to_text, map_position_through_changes *)

\* the loop of apply_changes_to_text with cursor = change.start: the replaced
\* range is copied after the inserted text
RECURSIVE ApplyLoop_keeps_range(_, _, _, _)
ApplyLoop_keeps_range(t, changes, cursor, out) ==
    IF changes = <<>> THEN out \o Slice(t, cursor, Len(t))
    ELSE ApplyLoop_keeps_range(t, Tail(changes), Head(changes).start,
                               out \o Slice(t, cursor, Head(changes).start)
                                   \o Head(changes).insert)

RECURSIVE ApplyLoop(_, _, _, _)
ApplyLoop(t, changes, cursor, out) ==
    IF changes = <<>> THEN out \o Slice(t, cursor, Len(t))
    ELSE LET change == Head(changes)
         IN  ApplyLoop(t, Tail(changes), change.end,
                       out \o Slice(t, cursor, change.start) \o change.insert)

apply_changes_to_text(t, changes) == ApplyLoop(t, changes, 0, <<>>)

saturating_sub(a, b) == IF a >= b THEN a - b ELSE 0

RECURSIVE map_position_through_changes(_, _)
map_position_through_changes(pos, changes) ==
    IF changes = <<>> THEN pos
    ELSE LET change == Head(changes)
             removed == change.end - change.start
             next == IF pos < change.start THEN pos
                     ELSE IF pos <= change.end THEN change.start + Len(change.insert)
                     ELSE IF Len(change.insert) >= removed
                          THEN pos + (Len(change.insert) - removed)
                          ELSE saturating_sub(pos, removed - Len(change.insert))
         IN  map_position_through_changes(next, Tail(changes))

-----------------------------------------------------------------------------
(* EditorSnapshot *)

Snapshot(t, sel, rev) == [text |-> t, selection |-> sel, revision |-> rev]

EditorSnapshot_new(t) == Snapshot(t, Selection_cursor(Len(t)), 0)

NoInfo == <<>>

\* Ok(ApplyOutcome), Err(CoreError), or the unit value of set_selection
Outcome(kind, text_changed, selection_changed, rev, info) ==
    [kind |-> kind, text_changed |-> text_changed,
     selection_changed |-> selection_changed, revision |-> rev, info |-> info,
     changed |-> FALSE]

\* replace_from_input clamping the selection to the length of the text it replaces
replace_from_input_old_len(snap, new_text, sel) ==
    LET next_selection == Selection_clamp(sel, Len(snap.text))
        text_changed == snap.text # new_text
        selection_changed == snap.selection # next_selection
        rev == IF text_changed THEN snap.revision + 1 ELSE snap.revision
    IN  [snap |-> Snapshot(new_text, next_selection, rev),
         ret |-> Outcome("Ok", text_changed, selection_changed, rev, NoInfo)]

\* the snapshot and the value returned by snapshot.replace_from_input(new_text, sel)
replace_from_input(snap, new_text, sel) ==
    LET next_selection == Selection_clamp(sel, Len(new_text))
        text_changed == snap.text # new_text
        selection_changed == snap.selection # next_selection
        rev == IF text_changed THEN snap.revision + 1 ELSE snap.revision
    IN  [snap |-> Snapshot(new_text, next_selection, rev),
         ret |-> Outcome("Ok", text_changed, selection_changed, rev, NoInfo)]

\* the end of apply_transaction with the revision bumped on every success
Commit_always_bumps(snap, next_text, next_selection) ==
    [snap |-> Snapshot(next_text, next_selection, snap.revision + 1),
     ret |-> Outcome("Ok", snap.text # next_text, snap.selection # next_selection,
                     snap.revision + 1, NoInfo)]

\* apply_transaction, from the assignment of the new text and selection on
Commit(snap, next_text, next_selection) ==
    [snap |-> Snapshot(next_text, next_selection,
                       IF snap.text # next_text THEN snap.revision + 1 ELSE snap.revision),
     ret |-> Outcome("Ok", snap.text # next_text, snap.selection # next_selection,
                     IF snap.text # next_text THEN snap.revision + 1 ELSE snap.revision,
                     NoInfo)]

\* apply_transaction, from the choice of the next selection on
SelectAndCommit(snap, tx, changes, next_text) ==
    Commit(snap, next_text,
           IF tx.selection_after # None
           THEN Selection_clamp(Unwrap(tx.selection_after), Len(next_text))
           ELSE Selection_clamp(
                    Selection_new(map_position_through_changes(snap.selection.start, changes),
                                  map_position_through_changes(snap.selection.end, changes)),
                    Len(next_text)))

\* apply_transaction assigning the selection before the changes are validated
ApplyNormalized_selects_first(snap, tx, normalized) ==
    IF normalized.kind # "Ok"
    THEN [snap |-> Snapshot(snap.text,
                            IF tx.selection_after # None
                            THEN Selection_clamp(Unwrap(tx.selection_after), Len(snap.text))
                            ELSE snap.selection,
                            snap.revision),
          ret |-> Outcome(normalized.kind, FALSE, FALSE, 0, normalized.info)]
    ELSE SelectAndCommit(snap, tx, normalized.changes,
                         IF normalized.changes = <<>> THEN snap.text
                         ELSE apply_changes_to_text(snap.text, normalized.changes))

\* apply_transaction, once normalize_changes has returned
ApplyNormalized(snap, tx, normalized) ==
    IF normalized.kind # "Ok"
    THEN [snap |-> snap, ret |-> Outcome(normalized.kind, FALSE, FALSE, 0, normalized.info)]
    ELSE SelectAndCommit(snap, tx, normalized.changes,
                         IF normalized.changes = <<>> THEN snap.text
                         ELSE apply_changes_to_text(snap.text, normalized.changes))

\* the snapshot and the value returned by snapshot.apply_transaction(tx)
apply_transaction(snap, tx) ==
    ApplyNormalized(snap, tx, normalize_changes(tx.changes, Len(snap.text)))

-----------------------------------------------------------------------------
(* line_start, line_end and the character classes of the command builder *)

SetMax(S) == CHOOSE x \in S : \A y \in S : x >= y

\* the offset after the last "\n" of t[..clamped], or 0
AfterLastNewline(found) == IF found = {} THEN 0 ELSE SetMax(found) + 1

line_start(t, pos) ==
    AfterLastNewline({i \in 0..(Min(pos, Len(t)) - 1) : t[i + 1] = "\n"})

\* the offset of the first "\n" of t[clamped..], or the length of t
FirstNewline(found, len) == IF found = {} THEN len ELSE SetMin(found)

line_end(t, pos) ==
    FirstNewline({i \in Min(pos, Len(t))..(Len(t) - 1) : t[i + 1] = "\n"}, Len(t))

\* \s of the patterns and char::is_whitespace of trim(), on one-byte characters
WhiteSpace == {" ", "\t", "\n", "\r"}
\* [-*+]
ListMarkers == {"-", "*", "+"}
\* \d on one-byte characters
Digits == <<"0", "1", "2", "3", "4", "5", "6", "7", "8", "9">>
IsDigit(c) == \E i \in 1..10 : Digits[i] = c
DigitValue(c) == (CHOOSE i \in 1..10 : Digits[i] = c) - 1

\* the length of the run that ends at the first of stops, or at the end of s
RunUntil(s, from, stops) == IF stops = {} THEN Len(s) - from ELSE SetMin(stops) - from

\* how many characters of s, from offset from on, belong to the class (a greedy run)
RunLength(s, from, InClass(_)) ==
    RunUntil(s, from, {i \in from..(Len(s) - 1) : ~InClass(s[i + 1])})

IsSpace(c) == c \in WhiteSpace
IsBlank(c) == c = " "

\* s.starts_with(c)
StartsWith(s, c) == Len(s) >= 1 /\ s[1] = c

\* line.chars().take_while(|c| *c == ' ').take(4).count()
LeadingSpacesUpTo4(line) == Min(RunLength(line, 0, IsBlank), 4)

\* body.trim().is_empty()
TrimIsEmpty(body) == \A i \in 1..Len(body) : body[i] \in WhiteSpace

\* A u64 is held as its decimal digits (values 0..9), most significant first,
\* without leading zeros: the integers of the checker are narrower than 64 bits.
U64Max == <<1, 8, 4, 4, 6, 7, 4, 4, 0, 7, 3, 7, 0, 9, 5, 5, 1, 6, 1, 5>>

DigitValues(digits) == [i \in 1..Len(digits) |-> DigitValue(digits[i])]

RECURSIVE StripZeros(_)
StripZeros(n) == IF Len(n) > 1 /\ n[1] = 0 THEN StripZeros(Tail(n)) ELSE n

\* a <= b, for digit sequences of one length
DigitsLeq(a, b) ==
    \/ a = b
    \/ \E i \in 1..Len(a) : a[i] < b[i] /\ \A j \in 1..(i - 1) : a[j] = b[j]

FitsU64(n) ==
    \/ Len(n) < Len(U64Max)
    \/ Len(n) = Len(U64Max) /\ DigitsLeq(n, U64Max)

\* Ok(n), or Err(PosOverflow) when the number does not fit
ParseValue(n) == IF FitsU64(n) THEN {n} ELSE {}

\* digits.parse::<u64>().ok(), of a non-empty run of digits
ParseDigits(digits) == ParseValue(StripZeros(DigitValues(digits)))

\* parsed.unwrap_or(default)
unwrap_or(parsed, default) == IF parsed = {} THEN default ELSE CHOOSE n \in parsed : TRUE

\* n + 1, without a bound
RECURSIVE AddOne(_)
AddOne(n) ==
    IF n = <<>> THEN <<1>>
    ELSE IF n[Len(n)] < 9 THEN SubSeq(n, 1, Len(n) - 1) \o <<n[Len(n)] + 1>>
    ELSE AddOne(SubSeq(n, 1, Len(n) - 1)) \o <<0>>

\* current + 1 overflows a u64
AddOverflows(n) == n = U64Max

\* current + 1 as a build without overflow checks computes it
WrappingAddOne(n) == IF AddOverflows(n) THEN <<0>> ELSE AddOne(n)

\* format!("{}", n)
FormatNumber(n) == [i \in 1..Len(n) |-> Digits[n[i] + 1]]

-----------------------------------------------------------------------------
(* The patterns of continue_markdown_block_transaction.  Each operator is   *)
(* the match of its pattern on one line: matched, and the capture groups.   *)
(* Every repetition is greedy and is followed by a character outside its    *)
(* class, so the leftmost match is the one that takes each run whole.  In   *)
(* the helpers i is the end of the leading \s*, p the end of the \s+ after  *)
(* the marker, k the length of the last \s+.                                *)

NoMatch == [matched |-> FALSE, prefix |-> <<>>, number |-> <<>>, body |-> <<>>]

Match(prefix, number, body) ==
    [matched |-> TRUE, prefix |-> prefix, number |-> number, body |-> body]

\* ^(\s*M\s+)(.*)$ for a marker class M
MarkerEnd(line, i, markers, p) ==
    IF Len(line) >= i + 2 /\ line[i + 1] \in markers /\ p >= i + 2
    THEN Match(Slice(line, 0, p), <<>>, Slice(line, p, Len(line)))
    ELSE NoMatch

MarkerAt(line, i, markers) ==
    MarkerEnd(line, i, markers, i + 1 + RunLength(line, i + 1, IsSpace))

\* ^(\s*[-*+]\s+)(.*)$
re_ul(line) == MarkerAt(line, RunLength(line, 0, IsSpace), ListMarkers)

\* ^(\s*>\s+)(.*)$
re_quote(line) == MarkerAt(line, RunLength(line, 0, IsSpace), {">"})

TaskBody(line, i, p, k) ==
    IF /\ Len(line) >= p + 4
       /\ line[i + 1] \in ListMarkers
       /\ p >= i + 2
       /\ line[p + 1] = "["
       /\ line[p + 2] \in {" ", "x", "X"}
       /\ line[p + 3] = "]"
       /\ k >= 1
    THEN Match(Slice(line, 0, p), <<>>, Slice(line, p + 3 + k, Len(line)))
    ELSE NoMatch

TaskBox(line, i, p) == TaskBody(line, i, p, RunLength(line, p + 3, IsSpace))

TaskAt(line, i) == TaskBox(line, i, i + 1 + RunLength(line, i + 1, IsSpace))

\* ^(\s*[-*+]\s+)\[(?: |x|X)\]\s+(.*)$
re_task(line) == TaskAt(line, RunLength(line, 0, IsSpace))

\* d is the length of \d+
OrderedBody(line, i, d, k) ==
    IF /\ d >= 1
       /\ Len(line) >= i + d + 2
       /\ line[i + d + 1] = "."
       /\ k >= 1
    THEN Match(Slice(line, 0, i), Slice(line, i, i + d), Slice(line, i + d + 1 + k, Len(line)))
    ELSE NoMatch

OrderedNumber(line, i, d) == OrderedBody(line, i, d, RunLength(line, i + d + 1, IsSpace))

OrderedAt(line, i) == OrderedNumber(line, i, RunLength(line, i, IsDigit))

\* ^(\s*)(\d+)\.\s+(.*)$
re_ol(line) == OrderedAt(line, RunLength(line, 0, IsSpace))

-----------------------------------------------------------------------------
(* The command builder *)

Spaces4 == <<" ", " ", " ", " ">>

\* wrap_transaction leaving the cursor before the closing token of a wrapped range
WrapAt_before_close(t, sel, open, close, label) ==
    Transaction_single(
        TextChange_new(sel.start, sel.end, open \o Slice(t, sel.start, sel.end) \o close),
        Some(IF Selection_is_cursor(sel)
             THEN Selection_cursor(sel.start + Len(open))
             ELSE Selection_cursor(sel.end + Len(open))),
        "Command", label)

WrapAt(t, sel, open, close, label) ==
    Transaction_single(
        TextChange_new(sel.start, sel.end, open \o Slice(t, sel.start, sel.end) \o close),
        Some(IF Selection_is_cursor(sel)
             THEN Selection_cursor(sel.start + Len(open))
             ELSE Selection_cursor(sel.end + Len(open) + Len(close))),
        "Command", label)

wrap_transaction(snap, open, close, label) ==
    WrapAt(snap.text, Selection_clamp(snap.selection, Len(snap.text)), open, close, label)

\* prefix_line_transaction leaving the selection where it was
PrefixAt_keeps_selection(start, sel, prefix, label) ==
    Transaction_single(
        TextChange_new(start, start, prefix),
        Some(Selection_new(sel.start, sel.end)),
        "Command", label)

PrefixAt(start, sel, prefix, label) ==
    Transaction_single(
        TextChange_new(start, start, prefix),
        Some(Selection_new(sel.start + Len(prefix), sel.end + Len(prefix))),
        "Command", label)

PrefixLineOf(t, sel, prefix, label) == PrefixAt(line_start(t, sel.start), sel, prefix, label)

prefix_line_transaction(snap, prefix, label) ==
    PrefixLineOf(snap.text, Selection_clamp(snap.selection, Len(snap.text)), prefix, label)

\* block.split('\n')
RECURSIVE SplitLines(_)
SplitLines(block) ==
    IF line_end(block, 0) = Len(block) THEN <<block>>
    ELSE <<Slice(block, 0, line_end(block, 0))>>
         \o SplitLines(Slice(block, line_end(block, 0) + 1, Len(block)))

\* an outdent that removes all the leading spaces of a line
OutdentWidth_all_spaces(line) ==
    IF StartsWith(line, "\t") THEN 1 ELSE RunLength(line, 0, IsBlank)

\* what the outdent of a line removes from its start
OutdentWidth(line) == IF StartsWith(line, "\t") THEN 1 ELSE LeadingSpacesUpTo4(line)

\* one line of the block, outdented or indented
TransformLine(line, outdent) ==
    IF outdent THEN Slice(line, OutdentWidth(line), Len(line)) ELSE Spaces4 \o line

RECURSIVE JoinTransformed(_, _)
JoinTransformed(lines, outdent) ==
    IF Len(lines) = 1 THEN TransformLine(lines[1], outdent)
    ELSE TransformLine(lines[1], outdent) \o <<"\n">> \o JoinTransformed(Tail(lines), outdent)

\* the cursor branch of an outdent with the cursor floored at 0, not at the line's start
OutdentLine_floor_at_zero(sel, ls, le, line, remove) ==
    IF remove = 0 THEN None
    ELSE Some(Transaction_single(
                TextChange_new(ls, le, Slice(line, remove, Len(line))),
                Some(Selection_cursor(saturating_sub(sel.start, remove))),
                "Command", "outdent"))

\* the cursor branch of an outdent, on the line text[ls..le]
OutdentLine(sel, ls, le, line, remove) ==
    IF remove = 0 THEN None
    ELSE Some(Transaction_single(
                TextChange_new(ls, le, Slice(line, remove, Len(line))),
                Some(Selection_cursor(IF saturating_sub(sel.start, ls) >= remove
                                      THEN sel.start - remove ELSE ls)),
                "Command", "outdent"))

OutdentCursor(t, sel, ls, le) ==
    OutdentLine(sel, ls, le, Slice(t, ls, le), OutdentWidth(Slice(t, ls, le)))

\* the range branch leaving the selection on the block's old range
TransformBlock_old_range(block_start, block_end, transformed, outdent) ==
    Some(Transaction_single(
            TextChange_new(block_start, block_end, transformed),
            Some(Selection_new(block_start, block_end)),
            "Command",
            IF outdent THEN "outdent-block" ELSE "indent-block"))

\* the range branch, on the block text[block_start..block_end]
TransformBlock(block_start, block_end, transformed, outdent) ==
    Some(Transaction_single(
            TextChange_new(block_start, block_end, transformed),
            Some(Selection_new(block_start, block_start + Len(transformed))),
            "Command",
            IF outdent THEN "outdent-block" ELSE "indent-block"))

IndentOrOutdentAt(t, sel, outdent) ==
    IF Selection_is_cursor(sel)
    THEN IF ~outdent
         THEN Some(Transaction_single(TextChange_new(sel.start, sel.end, Spaces4),
                                      Some(Selection_cursor(sel.start + 4)),
                                      "Command", "indent"))
         ELSE OutdentCursor(t, sel, line_start(t, sel.start), line_end(t, sel.start))
    ELSE TransformBlock(
            line_start(t, sel.start), line_end(t, sel.end),
            JoinTransformed(
                SplitLines(Slice(t, line_start(t, sel.start), line_end(t, sel.end))),
                outdent),
            outdent)

indent_or_outdent_transaction(snap, outdent) ==
    IndentOrOutdentAt(snap.text, Selection_clamp(snap.selection, Len(snap.text)), outdent)

\* "\n" when the body is blank, else "\n" and the continuation
ContinueWith(m, continuation) ==
    IF TrimIsEmpty(m.body) THEN <<"\n">> ELSE <<"\n">> \o continuation

\* the text to insert, or None when no pattern matches the line
ContinueChoice(task, ol, ul, quote) ==
    IF task.matched
    THEN Some(ContinueWith(task, task.prefix \o <<"[", " ", "]", " ">>))
    ELSE IF ol.matched
    THEN Some(ContinueWith(ol, ol.prefix
                               \o FormatNumber(WrappingAddOne(unwrap_or(ParseDigits(ol.number), <<1>>)))
                               \o <<".", " ">>))
    ELSE IF ul.matched
    THEN Some(ContinueWith(ul, ul.prefix))
    ELSE IF quote.matched
    THEN Some(ContinueWith(quote, quote.prefix))
    ELSE None

ContinueInsert(line) == ContinueChoice(re_task(line), re_ol(line), re_ul(line), re_quote(line))

ContinueTransaction(sel, insert) ==
    IF insert = None THEN None
    ELSE Some(Transaction_single(
                TextChange_new(sel.start, sel.end, Unwrap(insert)),
                Some(Selection_cursor(sel.start + Len(Unwrap(insert)))),
                "Command", "continue-markdown-block"))

\* continue_markdown_block_transaction without the test for a cursor
ContinueAt_ignores_range(t, sel) ==
    ContinueTransaction(
        sel, ContinueInsert(Slice(t, line_start(t, sel.start), line_end(t, sel.start))))

ContinueAt(t, sel) ==
    IF ~Selection_is_cursor(sel) THEN None
    ELSE ContinueTransaction(
            sel, ContinueInsert(Slice(t, line_start(t, sel.start), line_end(t, sel.start))))

continue_markdown_block_transaction(snap) ==
    ContinueAt(snap.text, Selection_clamp(snap.selection, Len(snap.text)))

\* current + 1 is reached with current = u64::MAX: the ordered pattern is the
\* one chosen, its body is not blank, and the number parses to u64::MAX
OrderedOverflows(task, ol) ==
    /\ ~task.matched
    /\ ol.matched
    /\ ~TrimIsEmpty(ol.body)
    /\ AddOverflows(unwrap_or(ParseDigits(ol.number), <<1>>))

ContinueOverflowsAt(t, sel) ==
    /\ Selection_is_cursor(sel)
    /\ OrderedOverflows(re_task(Slice(t, line_start(t, sel.start), line_end(t, sel.start))),
                        re_ol(Slice(t, line_start(t, sel.start), line_end(t, sel.start))))

\* the command reaches an addition that overflows: a build with overflow
\* checks panics there, a build without them wraps around
CommandOverflows(snap, command) ==
    /\ command.kind = "ContinueBlock"
    /\ ContinueOverflowsAt(snap.text, Selection_clamp(snap.selection, Len(snap.text)))

\* MarkdownCommand: the variant and its fields (empty where the variant has none)
Command(kind, open, close, prefix, label) ==
    [kind |-> kind, open |-> open, close |-> close, prefix |-> prefix, label |-> label]

build_markdown_transaction(snap, command) ==
    CASE command.kind = "Wrap" ->
            Some(wrap_transaction(snap, command.open, command.close, command.label))
      [] command.kind = "PrefixLine" ->
            Some(prefix_line_transaction(snap, command.prefix, command.label))
      [] command.kind = "Indent" -> indent_or_outdent_transaction(snap, FALSE)
      [] command.kind = "Outdent" -> indent_or_outdent_transaction(snap, TRUE)
      [] command.kind = "ContinueBlock" -> continue_markdown_block_transaction(snap)
      [] command.kind = "AutoPair" ->
            Some(wrap_transaction(snap, command.open, command.close, "autopair"))

\* Ok(changed) of apply_markdown_command
OkBool(changed) ==
    [kind |-> "Ok", text_changed |-> FALSE, selection_changed |-> FALSE, revision |-> 0,
     info |-> NoInfo, changed |-> changed]

\* apply_markdown_command reporting only a change of the text
CommandResult_text_only(r) ==
    IF r.ret.kind # "Ok" THEN r
    ELSE [snap |-> r.snap, ret |-> OkBool(r.ret.text_changed)]

\* apply_markdown_command, once the transaction has been applied
CommandResult(r) ==
    IF r.ret.kind # "Ok" THEN r
    ELSE [snap |-> r.snap, ret |-> OkBool(r.ret.text_changed \/ r.ret.selection_changed)]

\* apply_markdown_command, once build_markdown_transaction has returned
ApplyBuilt(snap, built) ==
    IF built = None THEN [snap |-> snap, ret |-> OkBool(FALSE)]
    ELSE CommandResult(apply_transaction(snap, Unwrap(built)))

\* the call does not return: the thread unwinds before the snapshot is touched
Panicked ==
    [kind |-> "Panic", text_changed |-> FALSE, selection_changed |-> FALSE, revision |-> 0,
     info |-> NoInfo, changed |-> FALSE]

\* the snapshot and the value returned by apply_markdown_command(&mut snap, command),
\* in a build with (overflow_checks) or without overflow checks
apply_markdown_command(snap, command, overflow_checks) ==
    IF overflow_checks /\ CommandOverflows(snap, command)
    THEN [snap |-> snap, ret |-> Panicked]
    ELSE ApplyBuilt(snap, build_markdown_transaction(snap, command))

-----------------------------------------------------------------------------
(* Inputs of the engine specification *)

Chars == {"a", " "}
Texts == SeqsUpTo(Chars, MaxLen)
\* offsets a caller may name: beyond the end of every text but the longest
Offsets == 0..MaxLen
\* selections as a caller may build them (the fields are public: start > end included)
Selections == [start : Offsets, end : Offsets]
Inserts == SeqsUpTo(Chars, 1)
Changes == [start : Offsets, end : Offsets, insert : Inserts]
\* transactions of zero, one or two changes
ChangeLists == {<<>>} \cup {<<c>> : c \in Changes} \cup {<<c, d>> : c, d \in Changes}
SelectionsAfter == {None} \cup {Some(s) : s \in {[start |-> 0, end |-> 1],
                                                 [start |-> MaxLen, end |-> 1]}}
Transactions ==
    [changes : ChangeLists, selection_after : SelectionsAfter,
     origin : {"Input"}, label : {"input"}]

\* commands whose strings stay within Chars
Commands ==
    {Command("Wrap", <<"a">>, <<" ">>, <<>>, "wrap"),
     Command("AutoPair", <<"a">>, <<"a">>, <<>>, ""),
     Command("PrefixLine", <<>>, <<>>, <<" ">>, "prefix"),
     Command("Indent", <<>>, <<>>, <<>>, ""),
     Command("Outdent", <<>>, <<>>, <<>>, ""),
     Command("ContinueBlock", <<>>, <<>>, <<>>, "")}

NoTransaction == [changes |-> <<>>, selection_after |-> None, origin |-> "System", label |-> ""]
NoSelection == Selection_cursor(0)
NoCommand == [kind |-> "None", open |-> <<>>, close |-> <<>>, prefix |-> <<>>, label |-> ""]

Call(op, t, sel, tx, cmd) ==
    [op |-> op, text |-> t, selection |-> sel, transaction |-> tx, command |-> cmd]

Current == Snapshot(text, selection, revision)

\* no call is in progress: the caller has dropped the last returned value
Idle == Call("idle", <<>>, NoSelection, NoTransaction, NoCommand)

\* an empty HashMap
NoEntries == <<>>

MetadataCacheState(file_cache, resolved_links, unresolved_links, backlinks, tags_index) ==
    [file_cache |-> file_cache, resolved_links |-> resolved_links,
     unresolved_links |-> unresolved_links, backlinks |-> backlinks,
     tags_index |-> tags_index]

MetadataCacheState_default ==
    MetadataCacheState(NoEntries, NoEntries, NoEntries, NoEntries, NoEntries)

\* no vault is open: the signals as the application creates them
NoVault ==
    /\ files = <<>>
    /\ note_texts = NoEntries
    /\ metadata_cache = MetadataCacheState_default
    /\ current_file = <<>>

\* the counters of VaultImportReport
Report(scanned_notes, imported_notes, scanned_images, imported_images, renamed_notes) ==
    [scanned_notes |-> scanned_notes, imported_notes |-> imported_notes,
     scanned_images |-> scanned_images, imported_images |-> imported_images,
     renamed_notes |-> renamed_notes]

\* the import: where it stands ("idle" before the first call, "copying" in
\* the loop, "returned" after), its arguments, the files still to copy, its
\* counters and its result; and, for the properties, the file system as it
\* was at the call, a record of each file written and the number of calls
Import(pc, source, destination, queue, report, result, before, written, calls) ==
    [pc |-> pc, source |-> source, destination |-> destination, queue |-> queue,
     report |-> report, result |-> result, before |-> before, written |-> written,
     calls |-> calls]

NoFiles == <<>>

NoImport ==
    /\ fs = NoFiles
    /\ import = Import("idle", <<>>, <<>>, <<>>, Report(0, 0, 0, 0, 0), "none", NoFiles, <<>>, 0)

\* no animation-frame callback has run
NoFrame == [kind |-> "none", expected_ticket |-> 0, latest |-> 0, applied |-> FALSE]

\* the signals of the application as it creates them: nothing is deferred
NoDeferred ==
    /\ vault_path = <<>>
    /\ save_timeout_id = None
    /\ timeouts = {}
    /\ write_calls = <<>>
    /\ selection_restore_ticket = 0
    /\ selection_sync_ticket = 0
    /\ frames = <<>>
    /\ frame_ran = NoFrame
    /\ dom_selection = None
    /\ is_composing = FALSE
    /\ composition_dirty = FALSE
    /\ image_preview_cache = NoEntries
    /\ image_preview_loading = {}
    /\ image_preview_failed = {}

\* the snapshot becomes next, and the call and its return value are recorded
Becomes(next, c, r, cap) ==
    /\ Len(next.text) <= cap
    /\ next.revision <= MaxRevision
    /\ text' = next.text
    /\ selection' = next.selection
    /\ revision' = next.revision
    /\ call' = c
    /\ pre' = Current
    /\ ret' = r
    /\ UNCHANGED <<caret_pos, parsed_html, vault, host, deferred>>

-----------------------------------------------------------------------------
(* Operations *)

Init ==
    \E t \in Texts :
        /\ text = EditorSnapshot_new(t).text
        /\ selection = EditorSnapshot_new(t).selection
        /\ revision = EditorSnapshot_new(t).revision
        /\ call = Call("new", t, NoSelection, NoTransaction, NoCommand)
        /\ pre = EditorSnapshot_new(t)
        /\ ret = Outcome("Unit", FALSE, FALSE, 0, NoInfo)
        /\ caret_pos = None
        /\ parsed_html = <<>>
        /\ NoVault
        /\ NoImport
        /\ NoDeferred

SetSelection ==
    /\ call = Idle
    /\ \E sel \in Selections :
        Becomes(Snapshot(text, Selection_clamp(sel, Len(text)), revision),
                Call("set_selection", <<>>, sel, NoTransaction, NoCommand),
                Outcome("Unit", FALSE, FALSE, 0, NoInfo), MaxLen)

ReplaceFromInput ==
    /\ call = Idle
    /\ \E t \in Texts, sel \in Selections :
        LET r == replace_from_input(Current, t, sel)
        IN  Becomes(r.snap, Call("replace_from_input", t, sel, NoTransaction, NoCommand), r.ret, MaxLen)

ApplyTransaction ==
    /\ call = Idle
    /\ \E tx \in Transactions :
        LET r == apply_transaction(Current, tx)
        IN  Becomes(r.snap, Call("apply_transaction", <<>>, NoSelection, tx, NoCommand), r.ret, MaxLen)

ApplyMarkdownCommand ==
    /\ call = Idle
    /\ \E command \in Commands, overflow_checks \in BOOLEAN :
        LET r == apply_markdown_command(Current, command, overflow_checks)
        IN  Becomes(r.snap, Call("apply_markdown_command", <<>>, NoSelection, NoTransaction, command),
                    r.ret, MaxLen)

\* the caller is done with the returned value and is ready for its next call
Return ==
    /\ call # Idle
    /\ call' = Idle
    /\ pre' = Current
    /\ ret' = Outcome("Unit", FALSE, FALSE, 0, NoInfo)
    /\ UNCHANGED <<text, selection, revision, caret_pos, parsed_html, vault, host, deferred>>

Next ==
    \/ SetSelection
    \/ ReplaceFromInput
    \/ ApplyTransaction
    \/ ApplyMarkdownCommand
    \/ Return

Spec == Init /\ [][Next]_vars

-----------------------------------------------------------------------------
(* The command specification: the command builder on markdown texts *)

CmdTexts ==
    {<<>>,
     <<"a">>,
     <<"a", "b">>,
     <<"a", "\n", "b">>,
     <<" ", "a">>,
     <<" ", " ", "a", "\n", " ", "b">>,
     <<"\t", "a">>,
     <<"\t", "\t", "a", "\n", "b">>,
     <<" ", " ", " ", " ", " ", "a">>,
     <<"a", "\n", "\n", " ", "b">>,
     <<"-", " ", "a">>,
     <<"-", " ">>,
     <<"-", "a">>,
     <<" ", "*", " ", "a">>,
     <<"a", "\n", "+", " ", "b">>,
     <<"-", " ", "[", " ", "]", " ", "a">>,
     <<"-", " ", "[", "x", "]", " ", "a">>,
     <<"-", " ", "[", " ", "]", " ">>,
     <<"-", " ", "[", " ", "]">>,
     <<"1", ".", " ", "a">>,
     <<" ", "9", ".", " ", "a">>,
     <<"1", "9", ".", " ", "a">>,
     <<"1", ".", " ">>,
     <<"1", ".", "a">>,
     <<">", " ", "a">>,
     <<">", " ">>,
     <<">", "a">>}

\* the commands the application issues (app.rs), and AutoPair with Wrap's tokens
CmdCommands ==
    {Command("Wrap", <<"*", "*">>, <<"*", "*">>, <<>>, "bold"),
     Command("Wrap", <<"[", "[">>, <<"]", "]">>, <<>>, "wikilink"),
     Command("Wrap", <<>>, <<>>, <<>>, "empty"),
     Command("AutoPair", <<"(">>, <<")">>, <<>>, ""),
     Command("AutoPair", <<"*", "*">>, <<"*", "*">>, <<>>, ""),
     Command("PrefixLine", <<>>, <<>>, <<">", " ">>, "quote"),
     Command("PrefixLine", <<>>, <<>>, <<"-", " ", "[", " ", "]", " ">>, "task"),
     Command("Indent", <<>>, <<>>, <<>>, ""),
     Command("Outdent", <<>>, <<>>, <<>>, ""),
     Command("ContinueBlock", <<>>, <<>>, <<>>, "")}

\* the snapshot as the application prepares it for a command: a text, and a
\* selection on it set by set_selection
CmdInit ==
    \E t \in CmdTexts :
        \E start \in 0..Len(t) :
            \E end \in start..Len(t) :
                /\ Len(t) <= MaxCmdLen
                /\ text = t
                /\ selection = Selection_clamp(Selection_new(start, end), Len(t))
                /\ revision = 0
                /\ call = Call("set_selection", <<>>, Selection_new(start, end),
                               NoTransaction, NoCommand)
                /\ pre = EditorSnapshot_new(t)
                /\ ret = Outcome("Unit", FALSE, FALSE, 0, NoInfo)
                /\ caret_pos = None
                /\ parsed_html = <<>>
                /\ NoVault
                /\ NoImport
                /\ NoDeferred

CmdApplyMarkdownCommand ==
    /\ call = Idle
    /\ \E command \in CmdCommands, overflow_checks \in BOOLEAN :
        LET r == apply_markdown_command(Current, command, overflow_checks)
        IN  Becomes(r.snap, Call("apply_markdown_command", <<>>, NoSelection, NoTransaction, command),
                    r.ret, MaxCmdLen)

CmdNext ==
    \/ CmdApplyMarkdownCommand
    \/ Return

SpecCmd == CmdInit /\ [][CmdNext]_vars

-----------------------------------------------------------------------------
(* The continuation specification: ContinueBlock on list and quote lines,   *)
(* with ordered markers up to and beyond the width of a u64                 *)

\* the longest text the continuation specification follows
MaxContinueLen == 60

\* the numbers of the ordered items: small, with a leading zero, around u64::MAX,
\* and one digit longer
OrderedNumbers ==
    {<<"1">>, <<"9">>, <<"0", "9">>, <<"9", "9">>,
     FormatNumber(SubSeq(U64Max, 1, Len(U64Max) - 1) \o <<4>>),
     FormatNumber(U64Max),
     <<"0">> \o FormatNumber(U64Max),
     FormatNumber(SubSeq(U64Max, 1, Len(U64Max) - 1) \o <<6>>),
     FormatNumber(U64Max \o <<0>>)}

ContinueIndents == {<<>>, <<" ">>}
ContinueBodies == {<<>>, <<"b">>}

ContinueLines ==
    {indent \o number \o <<".", " ">> \o body :
        indent \in ContinueIndents, number \in OrderedNumbers, body \in ContinueBodies}
    \cup {indent \o marker \o body :
            indent \in ContinueIndents,
            marker \in {<<"-", " ">>, <<"*", " ", " ">>, <<">", " ">>,
                        <<"+", " ", "[", "x", "]", " ">>, <<"-", " ", "[", " ", "]">>},
            body \in ContinueBodies}
    \cup {<<>>, <<"b">>, <<"1", ".", "b">>, <<"-", "b">>}

\* a line alone, or as the last line of a text
ContinueTexts == ContinueLines \cup {<<"-", " ", "a", "\n">> \o line : line \in ContinueLines}

\* the snapshot as the application prepares it when Enter is pressed: a text and
\* a caret (or a selection up to the end of the text) set by set_selection
ContinueInit ==
    \E t \in ContinueTexts :
        \E start \in 0..Len(t) :
            \E end \in {start, Len(t)} :
                /\ Len(t) <= MaxContinueLen
                /\ text = t
                /\ selection = Selection_clamp(Selection_new(start, end), Len(t))
                /\ revision = 0
                /\ call = Call("set_selection", <<>>, Selection_new(start, end),
                               NoTransaction, NoCommand)
                /\ pre = EditorSnapshot_new(t)
                /\ ret = Outcome("Unit", FALSE, FALSE, 0, NoInfo)
                /\ caret_pos = None
                /\ parsed_html = <<>>
                /\ NoVault
                /\ NoImport
                /\ NoDeferred

ContinueBlock ==
    /\ call = Idle
    /\ \E overflow_checks \in BOOLEAN :
        LET command == Command("ContinueBlock", <<>>, <<>>, <<>>, "")
            r == apply_markdown_command(Current, command, overflow_checks)
        IN  Becomes(r.snap, Call("apply_markdown_command", <<>>, NoSelection, NoTransaction, command),
                    r.ret, MaxContinueLen)

ContinueNext ==
    \/ ContinueBlock
    \/ Return

SpecContinue == ContinueInit /\ [][ContinueNext]_vars

-----------------------------------------------------------------------------
(* The live formatter (app.rs): character classes and pattern pieces.  The  *)
(* formatted text is a sequence of chunks: a tag, or one character of the   *)
(* text as escape_html writes it.                                           *)

LowerCase ==
    <<"a", "b", "c", "d", "e", "f", "g", "h", "i", "j", "k", "l", "m",
      "n", "o", "p", "q", "r", "s", "t", "u", "v", "w", "x", "y", "z">>
UpperCase ==
    <<"A", "B", "C", "D", "E", "F", "G", "H", "I", "J", "K", "L", "M",
      "N", "O", "P", "Q", "R", "S", "T", "U", "V", "W", "X", "Y", "Z">>
\* [A-Za-z]
Letters == {LowerCase[i] : i \in 1..26} \cup {UpperCase[i] : i \in 1..26}
\* [A-Za-z0-9]
AlphaNumerics == Letters \cup {Digits[i] : i \in 1..10}

\* c.to_ascii_lowercase()
LowerChar(c) ==
    IF \E i \in 1..26 : UpperCase[i] = c
    THEN LowerCase[CHOOSE i \in 1..26 : UpperCase[i] = c]
    ELSE c
\* s.to_ascii_lowercase()
to_ascii_lowercase(s) == [i \in 1..Len(s) |-> LowerChar(s[i])]

\* the grave accent (a string of the module cannot hold the character itself)
Backtick == "U+0060"

\* s[i..].starts_with(token)
HasAt(s, i, token) == i + Len(token) <= Len(s) /\ Slice(s, i, i + Len(token)) = token

\* the length of the greedy run [^excluded]* from offset from
RunOutside(s, from, excluded) ==
    RunUntil(s, from, {i \in from..(Len(s) - 1) : s[i + 1] \in excluded})
\* the length of the greedy run [class]* from offset from
RunInside(s, from, class) ==
    RunUntil(s, from, {i \in from..(Len(s) - 1) : s[i + 1] \notin class})

\* the match of  [^excluded]{min,} close  at offset b, r being the greedy run:
\* close starts with a character of excluded, so the run is taken whole
EnclosedClose(s, b, r, min, close) ==
    IF r >= min /\ HasAt(s, b + r, close) THEN b + r + Len(close) ELSE -1

\* the end of the match of  open [^excluded]{min,} close  at offset i, or -1
Enclosed(s, i, open, excluded, min, close) ==
    IF HasAt(s, i, open)
    THEN EnclosedClose(s, i + Len(open), RunOutside(s, i + Len(open), excluded), min, close)
    ELSE -1

\* the end of the match of  \]\(([^)\n]+)\)  whose "](" ends at offset e, or -1
LinkTarget(s, e) ==
    IF e < 0 THEN -1 ELSE Enclosed(s, e - 2, <<"]", "(">>, {")", "\n"}, 1, <<")">>)

\* the end of the match of  first [class]*  at offset i, or -1
NameEnd(s, i, sigil, first, class) ==
    IF HasAt(s, i, <<sigil>>) /\ i + 1 < Len(s) /\ s[i + 2] \in first
    THEN i + 2 + RunInside(s, i + 2, class)
    ELSE -1

\* the end of the leftmost-first match of a pattern of highlight_inline (or
\* of the link pattern of extract_file_cache) at offset i of s, or -1
MatchEndAt(pattern, s, i) ==
    CASE pattern = "code" -> Enclosed(s, i, <<Backtick>>, {Backtick, "\n"}, 1, <<Backtick>>)
      [] pattern = "embed" -> Enclosed(s, i, <<"!", "[", "[">>, {"]", "\n"}, 1, <<"]", "]">>)
      [] pattern = "wiki" -> Enclosed(s, i, <<"[", "[">>, {"]"}, 1, <<"]", "]">>)
      [] pattern = "md_image" ->
            LinkTarget(s, Enclosed(s, i, <<"!", "[">>, {"]", "\n"}, 0, <<"]", "(">>))
      [] pattern = "md_link" ->
            LinkTarget(s, Enclosed(s, i, <<"[">>, {"]", "\n"}, 1, <<"]", "(">>))
      [] pattern = "inline_math" -> Enclosed(s, i, <<"$">>, {"$", "\n"}, 1, <<"$">>)
      [] pattern = "footnote_ref" -> Enclosed(s, i, <<"[", "^">>, {"]", "\n"}, 1, <<"]">>)
      [] pattern = "inline_footnote" -> Enclosed(s, i, <<"^", "[">>, {"]", "\n"}, 1, <<"]">>)
      [] pattern = "block_id" -> NameEnd(s, i, "^", AlphaNumerics, AlphaNumerics \cup {"-"})
      [] pattern = "tag" -> NameEnd(s, i, "#", Letters, AlphaNumerics \cup {"_", "/", "-"})
      [] pattern = "link_or_image" ->
            IF HasAt(s, i, <<"!">>)
            THEN LinkTarget(s, Enclosed(s, i, <<"!", "[">>, {"]", "\n"}, 0, <<"]", "(">>))
            ELSE LinkTarget(s, Enclosed(s, i, <<"[">>, {"]", "\n"}, 0, <<"]", "(">>))

\* Regex::find_iter: the matches from left to right, each search starting
\* where the last match ended (no pattern here matches the empty string)
RECURSIVE FindIter(_, _, _)
FindIter(pattern, s, i) ==
    IF i >= Len(s) THEN <<>>
    ELSE IF MatchEndAt(pattern, s, i) >= 0
    THEN <<[start |-> i, end |-> MatchEndAt(pattern, s, i)]>>
         \o FindIter(pattern, s, MatchEndAt(pattern, s, i))
    ELSE FindIter(pattern, s, i + 1)

-----------------------------------------------------------------------------
(* Delimiter tokens *)

\* the number of backslashes that end at offset idx (is_escaped_at's loop)
RECURSIVE SlashCount(_, _)
SlashCount(s, idx) ==
    IF idx > 0 /\ s[idx] = "\\" THEN 1 + SlashCount(s, idx - 1) ELSE 0

is_escaped_at(s, idx) == IF idx = 0 THEN FALSE ELSE SlashCount(s, idx) % 2 = 1

RECURSIVE DelimiterPositionsFrom(_, _, _)
DelimiterPositionsFrom(s, marker, idx) ==
    IF idx + Len(marker) > Len(s) THEN <<>>
    ELSE IF HasAt(s, idx, marker) /\ ~is_escaped_at(s, idx)
    THEN <<idx>> \o DelimiterPositionsFrom(s, marker, idx + Len(marker))
    ELSE DelimiterPositionsFrom(s, marker, idx + 1)

find_delimiter_positions(s, delimiter) ==
    IF delimiter = <<>> THEN <<>> ELSE DelimiterPositionsFrom(s, delimiter, 0)

InlineMatch(start, end, inner_start, inner_end, open_len, close_len, class, hide_tokens, preview_html) ==
    [start |-> start, end |-> end, inner_start |-> inner_start, inner_end |-> inner_end,
     open_len |-> open_len, close_len |-> close_len, class |-> class,
     hide_tokens |-> hide_tokens, preview_html |-> preview_html]

\* an opening token and its closing token
PairedMatch(open, close, token_len, class, hide_tokens) ==
    InlineMatch(open, close + token_len, open + token_len, close, token_len, token_len,
                class, hide_tokens, None)

\* an opening token without a closing one: the tokens of the span are empty
UnmatchedMatch(open, len, class, hide_tokens) ==
    InlineMatch(open, len, open, len, 0, 0, class, hide_tokens, None)

\* the loop of collect_delimited_matches over the token positions, in pairs,
\* and the pending opener that is left
RECURSIVE PairTokens(_, _, _, _, _)
PairTokens(positions, len, token_len, class, hide_tokens) ==
    IF positions = <<>> THEN <<>>
    ELSE IF Len(positions) = 1
    THEN <<UnmatchedMatch(positions[1], len, class, hide_tokens)>>
    ELSE <<PairedMatch(positions[1], positions[2], token_len, class, hide_tokens)>>
         \o PairTokens(SubSeq(positions, 3, Len(positions)), len, token_len, class,
                       hide_tokens)

collect_delimited_matches(s, delimiter, class, hide_tokens) ==
    IF Len(delimiter) = 0 THEN <<>>
    ELSE PairTokens(find_delimiter_positions(s, delimiter), Len(s), Len(delimiter), class,
                    hide_tokens)

-----------------------------------------------------------------------------
(* The order of strings, Vec::sort and Vec::dedup *)

\* the printable ASCII characters in byte order (from the space, byte 32)
Ascii ==
    <<" ", "!", "\"", "#", "$", "%", "&", "'", "(", ")", "*", "+", ",", "-", ".", "/",
      "0", "1", "2", "3", "4", "5", "6", "7", "8", "9", ":", ";", "<", "=", ">", "?",
      "@", "A", "B", "C", "D", "E", "F", "G", "H", "I", "J", "K", "L", "M", "N", "O",
      "P", "Q", "R", "S", "T", "U", "V", "W", "X", "Y", "Z", "[", "\\", "]", "^", "_",
      Backtick, "a", "b", "c", "d", "e", "f", "g", "h", "i", "j", "k", "l", "m", "n", "o",
      "p", "q", "r", "s", "t", "u", "v", "w", "x", "y", "z", "{", "|", "}", "~">>

\* the byte of a character
Byte(c) ==
    IF c = "\t" THEN 9
    ELSE IF c = "\n" THEN 10
    ELSE IF c = "\r" THEN 13
    ELSE 31 + (CHOOSE i \in 1..Len(Ascii) : Ascii[i] = c)

\* the length of the longest common prefix of a and b
CommonPrefix(a, b) ==
    SetMax({k \in 0..Min(Len(a), Len(b)) : \A i \in 1..k : a[i] = b[i]})

\* a < b in the order of String (bytes, lexicographic)
StringLessAt(a, b, k) ==
    IF k = Len(a) THEN k < Len(b)
    ELSE k < Len(b) /\ Byte(a[k + 1]) < Byte(b[k + 1])

StringLess(a, b) == StringLessAt(a, b, CommonPrefix(a, b))

\* Vec::sort on strings
RECURSIVE InsertSorted(_, _)
InsertSorted(sorted, s) ==
    IF sorted = <<>> THEN <<s>>
    ELSE IF StringLess(s, Head(sorted)) THEN <<s>> \o sorted
    ELSE <<Head(sorted)>> \o InsertSorted(Tail(sorted), s)

RECURSIVE Sort(_)
Sort(list) ==
    IF list = <<>> THEN <<>>
    ELSE InsertSorted(Sort(SubSeq(list, 1, Len(list) - 1)), list[Len(list)])

\* Vec::dedup: consecutive equal elements are removed
RECURSIVE Dedup(_)
Dedup(list) ==
    IF Len(list) <= 1 THEN list
    ELSE IF list[1] = list[2] THEN Dedup(Tail(list))
    ELSE <<list[1]>> \o Dedup(Tail(list))

-----------------------------------------------------------------------------
(* Image previews.  image_ctx is None while no vault or no note is open,    *)
(* and else holds the vault path, the note path and the image preview      *)
(* cache: a local image has a preview when the cache holds one of its      *)
(* candidate paths, an image at an external URL always has one.            *)

\* s.trim_start(), s.trim_end(), s.trim()
TrimStart(s) == Slice(s, RunInside(s, 0, WhiteSpace), Len(s))
TrimEnd(s) == Slice(s, 0, SetMax({0} \cup {i \in 1..Len(s) : s[i] \notin WhiteSpace}))
Trim(s) == TrimEnd(TrimStart(s))

\* s.split(c).next(): s up to the first character of stops
UpTo(s, stops) == Slice(s, 0, RunOutside(s, 0, stops))

\* s.contains(token)
Contains(s, token) == \E i \in 0..Len(s) : HasAt(s, i, token)

\* s.replace(from, to), for a character from
Replace(s, from, to) == [i \in 1..Len(s) |-> IF s[i] = from THEN to ELSE s[i]]

normalize_slashes(path) == Replace(path, "\\", "/")

strip_wiki_target(raw) == Trim(UpTo(UpTo(Trim(raw), {"|"}), {"#"}))

\* the base of strip_markdown_image_target, of the trimmed target
ImageTargetBase(trimmed) ==
    IF StartsWith(trimmed, "<")
    THEN Trim(UpTo(Slice(trimmed, RunInside(trimmed, 0, {"<"}), Len(trimmed)), {">"}))
    ELSE UpTo(trimmed, WhiteSpace)

strip_markdown_image_target(raw) ==
    Trim(UpTo(UpTo(ImageTargetBase(Trim(raw)), {"#"}), {"?"}))

\* the offsets at which the segments of a path start (after each "/", and 0)
SegmentStarts(path) == {0} \cup {i \in 1..Len(path) : path[i] = "/"}

\* the segment of path that starts at offset i
SegmentAt(path, i) == Slice(path, i, i + RunOutside(path, i, {"/"}))

\* Path::file_name: the last component, "." and empty segments skipped; none
\* when there is no component or the last one is ".."
FileNameOf(path, starts) ==
    IF starts = {} \/ SegmentAt(path, SetMax(starts)) = <<".", ".">> THEN None
    ELSE Some(SegmentAt(path, SetMax(starts)))

file_name(path) ==
    FileNameOf(path, {i \in SegmentStarts(path) :
                        SegmentAt(path, i) \notin {<<>>, <<".">>}})

\* the part of a file name after its last dot, none when the name has no dot
\* or only a leading one
ExtensionAfter(name, dots) ==
    IF dots = {} \/ SetMax(dots) = 1 THEN None
    ELSE Some(Slice(name, SetMax(dots), Len(name)))

\* Path::extension
ExtensionOf(name) ==
    IF name = None THEN None
    ELSE ExtensionAfter(Unwrap(name), {i \in 1..Len(Unwrap(name)) : Unwrap(name)[i] = "."})

LowerExtension(ext) == IF ext = None THEN None ELSE Some(to_ascii_lowercase(Unwrap(ext)))

image_extension(path) == LowerExtension(ExtensionOf(file_name(normalize_slashes(path))))

SupportedImageExtensions ==
    {<<"p", "n", "g">>, <<"j", "p", "g">>, <<"j", "p", "e", "g">>, <<"g", "i", "f">>,
     <<"w", "e", "b", "p">>, <<"b", "m", "p">>, <<"s", "v", "g">>, <<"t", "i", "f">>,
     <<"t", "i", "f", "f">>, <<"i", "c", "o">>, <<"a", "v", "i", "f">>,
     <<"h", "e", "i", "c">>, <<"h", "e", "i", "f">>}

is_supported_inline_image_path(path) ==
    \E ext \in SupportedImageExtensions : image_extension(path) = Some(ext)

ExternalLowered(t) ==
    Contains(t, <<":", "/", "/">>) \/ HasAt(t, 0, <<"d", "a", "t", "a", ":">>)

looks_like_external_url(target) == ExternalLowered(to_ascii_lowercase(Trim(target)))

\* one character as escape_html_attr writes it
EscapeAttrChar(c) ==
    CASE c = "&" -> "&amp;"
      [] c = "\"" -> "&quot;"
      [] c = "<" -> "&lt;"
      [] c = ">" -> "&gt;"
      [] OTHER -> c

escape_html_attr(s) == [i \in 1..Len(s) |-> EscapeAttrChar(s[i])]

\* the preview element of an image with source src
ImagePreview(src, alt) ==
    <<"<span class=\"md-inline-image-wrap\" contenteditable=\"false\">",
      "<img class=\"md-inline-image\" src=\"">>
    \o escape_html_attr(src) \o <<"\" alt=\"">> \o escape_html_attr(alt)
    \o <<"\"/>", "</span>">>

\* s.split(sep): the pieces of s between the characters sep
RECURSIVE SplitOn(_, _)
SplitOn(s, sep) ==
    IF RunOutside(s, 0, {sep}) = Len(s) THEN <<s>>
    ELSE <<Slice(s, 0, RunOutside(s, 0, {sep}))>>
         \o SplitOn(Slice(s, RunOutside(s, 0, {sep}) + 1, Len(s)), sep)

\* parts.join("/")
RECURSIVE JoinedBySlash(_)
JoinedBySlash(parts) ==
    IF parts = <<>> THEN <<>>
    ELSE IF Len(parts) = 1 THEN parts[1]
    ELSE parts[1] \o <<"/">> \o JoinedBySlash(Tail(parts))

\* the loop of collapse_path over the segments: empty ones and "." are
\* passed by, ".." takes the last part away when there is one
RECURSIVE CollapsedParts(_, _)
CollapsedParts(segments, parts) ==
    IF segments = <<>> THEN parts
    ELSE IF Head(segments) = <<>> \/ Head(segments) = <<".">>
    THEN CollapsedParts(Tail(segments), parts)
    ELSE IF Head(segments) = <<".", ".">>
    THEN CollapsedParts(Tail(segments),
                        IF parts = <<>> THEN parts ELSE SubSeq(parts, 1, Len(parts) - 1))
    ELSE CollapsedParts(Tail(segments), Append(parts, Head(segments)))

\* collapse_path of a path whose slashes are normalized
CollapsedNormalized(normalized) ==
    IF StartsWith(normalized, "/")
    THEN <<"/">> \o JoinedBySlash(CollapsedParts(
             SplitOn(Slice(normalized, RunInside(normalized, 0, {"/"}), Len(normalized)), "/"),
             <<>>))
    ELSE IF Len(normalized) >= 2 /\ normalized[2] = ":"
    THEN Slice(normalized, 0, 2) \o <<"/">> \o JoinedBySlash(CollapsedParts(
             SplitOn(Slice(normalized, 2 + RunInside(normalized, 2, {"/"}), Len(normalized)),
                     "/"),
             <<>>))
    ELSE JoinedBySlash(CollapsedParts(SplitOn(normalized, "/"), <<>>))

collapse_path(path) == CollapsedNormalized(normalize_slashes(path))

\* normalized.rsplit_once('/'): what precedes the last slash, "" without one
DirBefore(normalized, slashes) ==
    IF slashes = {} THEN <<>> ELSE Slice(normalized, 0, SetMax(slashes) - 1)

current_note_dir(note_path) ==
    DirBefore(normalize_slashes(note_path),
              {i \in 1..Len(note_path) : normalize_slashes(note_path)[i] = "/"})

PathWithin(base_norm, candidate_norm) ==
    /\ base_norm # <<>>
    /\ \/ candidate_norm = base_norm
       \/ HasAt(candidate_norm, 0, base_norm \o <<"/">>)

is_path_within(base, candidate) ==
    PathWithin(Slice(collapse_path(base), 0,
                     SetMax({0} \cup {i \in 1..Len(collapse_path(base)) :
                                         collapse_path(base)[i] # "/"})),
               collapse_path(candidate))

\* the candidates image_local_candidates collects for a target inside the
\* vault that is not absolute, before it filters and sorts them
RelativeCandidates(vault_norm, note_dir, target_norm) ==
    (IF note_dir # <<>>
     THEN <<collapse_path(vault_norm \o <<"/">> \o note_dir \o <<"/">> \o target_norm)>>
     ELSE <<>>)
    \o <<collapse_path(vault_norm \o <<"/">> \o target_norm)>>

\* out.retain(|candidate| is_path_within(&vault_norm, candidate))
Retained(out, vault_norm) == SelectSeq(out, LAMBDA candidate : is_path_within(vault_norm, candidate))

LocalCandidates(vault_norm, note_path, target_norm) ==
    IF Len(target_norm) >= 2 /\ target_norm[2] = ":" THEN <<>>
    ELSE IF StartsWith(target_norm, "/")
    THEN <<collapse_path(vault_norm \o <<"/">>
                         \o Slice(target_norm, RunInside(target_norm, 0, {"/"}),
                                  Len(target_norm)))>>
    ELSE Dedup(Sort(Retained(RelativeCandidates(vault_norm, current_note_dir(note_path),
                                                target_norm),
                             vault_norm)))

image_local_candidates(vault_path_, note_path, target) ==
    IF target = <<>> \/ ~is_supported_inline_image_path(target) THEN <<>>
    ELSE IF looks_like_external_url(target) THEN <<>>
    ELSE LocalCandidates(collapse_path(vault_path_), note_path, normalize_slashes(Trim(target)))

\* ImageRenderContext
ImageRenderContext(vault_path_, current_file_, cache) ==
    [vault_path |-> vault_path_, current_file |-> current_file_, cache |-> cache]

\* candidates.into_iter().find(|candidate| ctx.cache.contains_key(candidate))
FoundInCache(candidates, cache) ==
    IF \E k \in 1..Len(candidates) : candidates[k] \in DOMAIN cache
    THEN Some(candidates[CHOOSE k \in 1..Len(candidates) :
                             /\ candidates[k] \in DOMAIN cache
                             /\ \A j \in 1..(k - 1) : candidates[j] \notin DOMAIN cache])
    ELSE None

\* the source of a local image: what the cache holds for its first candidate
\* that the cache has
LocalSource(ctx, target) ==
    IF FoundInCache(image_local_candidates(ctx.vault_path, ctx.current_file, target),
                    ctx.cache) = None
    THEN None
    ELSE Some(ctx.cache[Unwrap(FoundInCache(
                  image_local_candidates(ctx.vault_path, ctx.current_file, target),
                  ctx.cache))])

\* resolve_image_preview_html: alt is empty for an embed
resolve_image_preview_html(image_ctx, target, alt) ==
    IF target = <<>> \/ ~is_supported_inline_image_path(target) THEN None
    ELSE IF looks_like_external_url(target) THEN Some(ImagePreview(target, alt))
    ELSE IF image_ctx = None THEN None
    ELSE IF LocalSource(Unwrap(image_ctx), target) = None THEN None
    ELSE Some(ImagePreview(Unwrap(LocalSource(Unwrap(image_ctx), target)), alt))

-----------------------------------------------------------------------------
(* highlight_inline: the candidates in their order of precedence *)

\* a match whose two tokens are hidden: open_len and close_len characters
TokenMatch(m, open_len, close_len, class, preview_html) ==
    InlineMatch(m.start, m.end, m.start + open_len, m.end - close_len, open_len,
                close_len, class, TRUE, preview_html)

\* a match shown whole
WholeMatch(m, class, preview_html) ==
    InlineMatch(m.start, m.end, m.start, m.end, 0, 0, class, FALSE, preview_html)

CodeMatches(s, found) ==
    [k \in 1..Len(found) |-> TokenMatch(found[k], 1, 1, "hl-code", None)]

EmbedMatches(s, found, image_ctx) ==
    [k \in 1..Len(found) |->
        TokenMatch(found[k], 3, 2, "hl-embed",
                   resolve_image_preview_html(
                       image_ctx,
                       strip_wiki_target(Slice(s, found[k].start + 3, found[k].end - 2)),
                       <<>>))]

WikiMatches(s, found) ==
    [k \in 1..Len(found) |-> TokenMatch(found[k], 2, 2, "hl-link", None)]

\* the offset of the "](" of the markdown image matched at offset start
AltEnd(s, start) == start + 2 + RunOutside(s, start + 2, {"]", "\n"})

ImageMatches(s, found, image_ctx) ==
    [k \in 1..Len(found) |->
        WholeMatch(found[k], "hl-embed",
                   resolve_image_preview_html(
                       image_ctx,
                       strip_markdown_image_target(
                           Slice(s, AltEnd(s, found[k].start) + 2, found[k].end - 1)),
                       Slice(s, found[k].start + 2, AltEnd(s, found[k].start))))]

WholeMatches(found, class) ==
    [k \in 1..Len(found) |-> WholeMatch(found[k], class, None)]

MathMatches(s, found) ==
    [k \in 1..Len(found) |-> TokenMatch(found[k], 1, 1, "hl-math-inline", None)]

\* every candidate of a line, in the order highlight_inline offers them
Candidates(s, image_ctx) ==
    CodeMatches(s, FindIter("code", s, 0))
    \o collect_delimited_matches(s, <<"%", "%">>, "hl-comment", FALSE)
    \o EmbedMatches(s, FindIter("embed", s, 0), image_ctx)
    \o WikiMatches(s, FindIter("wiki", s, 0))
    \o ImageMatches(s, FindIter("md_image", s, 0), image_ctx)
    \o WholeMatches(FindIter("md_link", s, 0), "hl-link")
    \o collect_delimited_matches(s, <<"*", "*", "*">>, "hl-bold hl-italic", TRUE)
    \o collect_delimited_matches(s, <<"_", "_", "_">>, "hl-bold hl-italic", TRUE)
    \o collect_delimited_matches(s, <<"*", "*">>, "hl-bold", TRUE)
    \o collect_delimited_matches(s, <<"_", "_">>, "hl-bold", TRUE)
    \o collect_delimited_matches(s, <<"~", "~">>, "hl-strike", TRUE)
    \o collect_delimited_matches(s, <<"=", "=">>, "hl-mark", TRUE)
    \o collect_delimited_matches(s, <<"*">>, "hl-italic", TRUE)
    \o collect_delimited_matches(s, <<"_">>, "hl-italic", TRUE)
    \o MathMatches(s, FindIter("inline_math", s, 0))
    \o WholeMatches(FindIter("footnote_ref", s, 0), "hl-footnote")
    \o WholeMatches(FindIter("inline_footnote", s, 0), "hl-footnote")
    \o WholeMatches(FindIter("tag", s, 0), "hl-tag")
    \o WholeMatches(FindIter("block_id", s, 0), "hl-block-id")

\* matches.iter().any(|x| start < x.end && end > x.start)
overlaps_existing_start_only(matches, start, end) ==
    \E k \in 1..Len(matches) : matches[k].start <= start /\ start < matches[k].end

overlaps_existing(matches, start, end) ==
    \E k \in 1..Len(matches) : start < matches[k].end /\ end > matches[k].start

push_non_overlapping(matches, candidate) ==
    IF ~overlaps_existing(matches, candidate.start, candidate.end)
    THEN Append(matches, candidate)
    ELSE matches

\* the candidates offered one after the other
RECURSIVE PushAll(_, _)
PushAll(matches, candidates) ==
    IF candidates = <<>> THEN matches
    ELSE PushAll(push_non_overlapping(matches, Head(candidates)), Tail(candidates))

\* matches.sort_by_key(|m| m.start): stable
RECURSIVE InsertByStart(_, _)
InsertByStart(sorted, m) ==
    IF sorted = <<>> THEN <<m>>
    ELSE IF m.start < Head(sorted).start THEN <<m>> \o sorted
    ELSE <<Head(sorted)>> \o InsertByStart(Tail(sorted), m)

RECURSIVE SortByStart(_)
SortByStart(matches) ==
    IF matches = <<>> THEN <<>>
    ELSE InsertByStart(SortByStart(SubSeq(matches, 1, Len(matches) - 1)),
                       matches[Len(matches)])

\* the matches that start at or after the end of the last one kept
RECURSIVE Disjoint(_, _)
Disjoint(matches, last_end) ==
    IF matches = <<>> THEN <<>>
    ELSE IF Head(matches).start >= last_end
    THEN <<Head(matches)>> \o Disjoint(Tail(matches), Head(matches).end)
    ELSE Disjoint(Tail(matches), last_end)

\* the spans highlight_inline renders, from left to right
AcceptedSpans(s, image_ctx) == Disjoint(SortByStart(PushAll(<<>>, Candidates(s, image_ctx))), 0)

-----------------------------------------------------------------------------
(* highlight_inline: the output *)

EscapeChar(c) ==
    CASE c = "&" -> "&amp;"
      [] c = "<" -> "&lt;"
      [] c = ">" -> "&gt;"
      [] OTHER -> c

escape_html(s) == [i \in 1..Len(s) |-> EscapeChar(s[i])]

SpanOpen(class) == "<span class=\"" \o class \o "\">"
SpanClose == "</span>"
TokenVisible == "<span class=\"md-token md-token-visible\">"
TokenHidden == "<span class=\"md-token md-token-hidden\">"

\* caret.map(|c| c >= m.start && c <= m.end).unwrap_or(false)
CaretInside(m, caret) ==
    caret # None /\ Unwrap(caret) >= m.start /\ Unwrap(caret) <= m.end

\* a span with its two tokens under the token class
WithTokens(s, m, token) ==
    <<token>> \o escape_html(Slice(s, m.start, m.start + m.open_len))
    \o <<SpanClose, SpanOpen(m.class)>> \o escape_html(Slice(s, m.inner_start, m.inner_end))
    \o <<SpanClose, token>> \o escape_html(Slice(s, m.end - m.close_len, m.end))
    \o <<SpanClose>>

RenderMatch_drops_hidden(s, m, caret) ==
    IF CaretInside(m, caret) /\ m.hide_tokens THEN WithTokens(s, m, TokenVisible)
    ELSE IF CaretInside(m, caret) THEN escape_html(Slice(s, m.start, m.end))
    ELSE IF m.hide_tokens
    THEN <<SpanOpen(m.class)>> \o escape_html(Slice(s, m.inner_start, m.inner_end))
         \o <<SpanClose>>
    ELSE <<SpanOpen(m.class)>> \o escape_html(Slice(s, m.start, m.end)) \o <<SpanClose>>

RenderMatch(s, m, caret) ==
    IF CaretInside(m, caret) /\ m.hide_tokens THEN WithTokens(s, m, TokenVisible)
    ELSE IF CaretInside(m, caret) THEN escape_html(Slice(s, m.start, m.end))
    ELSE IF m.hide_tokens THEN WithTokens(s, m, TokenHidden)
    ELSE <<SpanOpen(m.class)>> \o escape_html(Slice(s, m.start, m.end)) \o <<SpanClose>>

PreviewOf(m) == IF m.preview_html = None THEN <<>> ELSE Unwrap(m.preview_html)

RECURSIVE RenderFrom(_, _, _, _)
RenderFrom(s, spans, caret, pos) ==
    IF spans = <<>> THEN escape_html(Slice(s, pos, Len(s)))
    ELSE escape_html(Slice(s, pos, Head(spans).start))
         \o RenderMatch(s, Head(spans), caret)
         \o PreviewOf(Head(spans))
         \o RenderFrom(s, Tail(spans), caret, Head(spans).end)

highlight_inline(s, caret, image_ctx) == RenderFrom(s, AcceptedSpans(s, image_ctx), caret, 0)

-----------------------------------------------------------------------------
(* highlight_markdown: the patterns of a line (line_without_nl) *)

\* ^\s*>\s*\[![A-Za-z0-9-]+\][+-]?\s*.*$ once the leading \s*>\s* ends at offset j
CalloutName(line, j) ==
    /\ HasAt(line, j, <<"[", "!">>)
    /\ RunInside(line, j + 2, AlphaNumerics \cup {"-"}) >= 1
    /\ HasAt(line, j + 2 + RunInside(line, j + 2, AlphaNumerics \cup {"-"}), <<"]">>)

CalloutAt(line, i) ==
    /\ HasAt(line, i, <<">">>)
    /\ CalloutName(line, i + 1 + RunInside(line, i + 1, WhiteSpace))

is_callout(line) == CalloutAt(line, RunInside(line, 0, WhiteSpace))

\* ^(#{1,6})[^\S\n]+.*$ : the level, or 0 when the line is no heading
HeadingOf(line, hashes) ==
    IF /\ hashes >= 1
       /\ hashes <= 6
       /\ hashes < Len(line)
       /\ line[hashes + 1] \in WhiteSpace \ {"\n"}
    THEN hashes ELSE 0

heading_level(line) == HeadingOf(line, RunInside(line, 0, {"#"}))

\* (?:m[\t ]*){3,} followed by \s* up to the end: body is the rest of the
\* line without its trailing white space
RuleBody(body) ==
    /\ body # <<>>
    /\ body[1] \in {"*", "-", "_"}
    /\ \A k \in 1..Len(body) : body[k] \in {body[1], "\t", " "}
    /\ Cardinality({k \in 1..Len(body) : body[k] = body[1]}) >= 3

\* ^\s{0,3}(?:(?:\*[\t ]*){3,}|(?:-[\t ]*){3,}|(?:_[\t ]*){3,})\s*$
RuleAt(line, i) == i <= 3 /\ RuleBody(TrimEnd(Slice(line, i, Len(line))))

is_hr(line) == RuleAt(line, RunInside(line, 0, WhiteSpace))

\* ^\s*\[\^[^\]]+\]:\s+.*$ once the label ends at offset e
FootnoteDefEnd(line, e) == e >= 0 /\ e < Len(line) /\ line[e + 1] \in WhiteSpace

is_footnote_def(line) ==
    FootnoteDefEnd(line, Enclosed(line, RunInside(line, 0, WhiteSpace), <<"[", "^">>, {"]"},
                                  1, <<"]", ":">>))

\* ^\s*>\s+.*$
is_quote(line) == MarkerAt(line, RunInside(line, 0, WhiteSpace), {">"}).matched

\* ^\s*[-*+]\s+\[(?: |x|X)\]\s+.*$
is_task(line) == TaskAt(line, RunInside(line, 0, WhiteSpace)).matched

\* ^\s*[-*+]\s+.*$
is_list(line) == MarkerAt(line, RunInside(line, 0, WhiteSpace), ListMarkers).matched

\* ^\s*\d+[.)]\s+.*$ once the digits end at offset e
OrderedMarker(line, i, e) ==
    /\ e > i
    /\ e + 1 < Len(line)
    /\ line[e + 1] \in {".", ")"}
    /\ line[e + 2] \in WhiteSpace

OrderedFrom(line, i) == OrderedMarker(line, i, i + RunInside(line, i, {Digits[k] : k \in 1..10}))

is_ordered(line) == OrderedFrom(line, RunInside(line, 0, WhiteSpace))

\* ^\s*\|.*\|\s*$ on the trimmed line
TableRow(trimmed) ==
    Len(trimmed) >= 2 /\ trimmed[1] = "|" /\ trimmed[Len(trimmed)] = "|"

is_table_row(line) == TableRow(Trim(line))

\* :?-{3,}:? on a trimmed cell
SeparatorCell(cell, from, to) ==
    /\ to - from >= 3
    /\ \A k \in (from + 1)..to : cell[k] = "-"

SeparatorCellTrimmed(cell) ==
    SeparatorCell(cell,
                  IF StartsWith(cell, ":") THEN 1 ELSE 0,
                  IF Len(cell) >= 1 /\ cell[Len(cell)] = ":" THEN Len(cell) - 1 ELSE Len(cell))

\* the cells of a row: the pieces between its bars
RECURSIVE Cells(_)
Cells(row) ==
    IF RunOutside(row, 0, {"|"}) = Len(row) THEN <<row>>
    ELSE <<UpTo(row, {"|"})>> \o Cells(Slice(row, RunOutside(row, 0, {"|"}) + 1, Len(row)))

SeparatorCells(cells) ==
    Len(cells) >= 2 /\ \A k \in 1..Len(cells) : SeparatorCellTrimmed(Trim(cells[k]))

\* the row without its optional first and last bar
InnerRow(trimmed, from) ==
    Slice(trimmed, from,
          IF Len(trimmed) > from /\ trimmed[Len(trimmed)] = "|"
          THEN Len(trimmed) - 1 ELSE Len(trimmed))

\* ^\s*\|?(?:\s*:?-{3,}:?\s*\|)+\s*:?-{3,}:?\s*\|?\s*$
TableSeparator(trimmed) ==
    SeparatorCells(Cells(InnerRow(trimmed, IF StartsWith(trimmed, "|") THEN 1 ELSE 0)))

is_table_separator(line) == TableSeparator(Trim(line))

-----------------------------------------------------------------------------
(* highlight_markdown: fences and the block pass *)

FenceMarkers == {Backtick, "~"}

\* code_fence_open of the line without its indentation
FenceOpen(trimmed, len) ==
    IF Len(trimmed) >= 3 /\ trimmed[1] \in FenceMarkers /\ len >= 3
    THEN Some([marker |-> trimmed[1], len |-> len])
    ELSE None

FenceOpenTrimmed(trimmed) ==
    FenceOpen(trimmed, IF trimmed = <<>> THEN 0 ELSE RunInside(trimmed, 0, {trimmed[1]}))

code_fence_open(line) == FenceOpenTrimmed(TrimStart(line))

FenceCloseTrimmed_any_run(trimmed, marker, min_len) ==
    /\ StartsWith(trimmed, marker)
    /\ Trim(Slice(trimmed, RunInside(trimmed, 0, {marker}), Len(trimmed))) = <<>>

FenceCloseTrimmed(trimmed, marker, min_len) ==
    /\ Len(trimmed) >= min_len
    /\ StartsWith(trimmed, marker)
    /\ RunInside(trimmed, 0, {marker}) >= min_len
    /\ Trim(Slice(trimmed, RunInside(trimmed, 0, {marker}), Len(trimmed))) = <<>>

code_fence_close(line, marker, min_len) == FenceCloseTrimmed(TrimStart(line), marker, min_len)

\* line.matches(token).count(): the occurrences that do not overlap, from the left
RECURSIVE CountMatches(_, _, _)
CountMatches(s, token, i) ==
    IF i + Len(token) > Len(s) THEN 0
    ELSE IF HasAt(s, i, token) THEN 1 + CountMatches(s, token, i + Len(token))
    ELSE CountMatches(s, token, i + 1)

\* line_without_nl.matches("%%").count() % 2 == 1
OddComments_any(line) == CountMatches(line, <<"%", "%">>, 0) >= 1

OddComments(line) == CountMatches(line, <<"%", "%">>, 0) % 2 = 1

wrap_line(class, html) == <<SpanOpen(class)>> \o html \o <<SpanClose>>

\* text.split_inclusive('\n')
RECURSIVE SplitInclusive(_)
SplitInclusive(s) ==
    IF s = <<>> THEN <<>>
    ELSE IF RunOutside(s, 0, {"\n"}) = Len(s) THEN <<s>>
    ELSE <<Slice(s, 0, RunOutside(s, 0, {"\n"}) + 1)>>
         \o SplitInclusive(Slice(s, RunOutside(s, 0, {"\n"}) + 1, Len(s)))

\* line.strip_suffix('\n').unwrap_or(line)
WithoutNewline(line) ==
    IF Len(line) >= 1 /\ line[Len(line)] = "\n" THEN Slice(line, 0, Len(line) - 1) ELSE line

\* the state of the block pass before its first line
BlockStart ==
    [offset |-> 0, in_frontmatter |-> FALSE, frontmatter_possible |-> TRUE,
     in_math_block |-> FALSE, in_comment_block |-> FALSE, code_fence |-> None]

\* caret.filter(|c| *c >= offset && *c < offset + line_len).map(|c| c - offset)
CaretRel(caret, offset, line_len) ==
    IF caret # None /\ Unwrap(caret) >= offset /\ Unwrap(caret) < offset + line_len
    THEN Some(Unwrap(caret) - offset)
    ELSE None

HeadingClass(level) ==
    CASE level = 1 -> "hl-h1"
      [] level = 2 -> "hl-h2"
      [] level = 3 -> "hl-h3"
      [] level = 4 -> "hl-h4"
      [] level = 5 -> "hl-h5"
      [] OTHER -> "hl-h6"

\* the class a line of the normal state is wrapped in, "" for none
LineClass(line) ==
    IF is_callout(line) THEN "hl-callout"
    ELSE IF heading_level(line) > 0 THEN HeadingClass(heading_level(line))
    ELSE IF is_hr(line) THEN "hl-hr"
    ELSE IF is_footnote_def(line) THEN "hl-footnote-def"
    ELSE IF is_quote(line) THEN "hl-quote"
    ELSE IF is_task(line) THEN "hl-task"
    ELSE IF is_ordered(line) \/ is_list(line) THEN "hl-list"
    ELSE IF is_table_separator(line) \/ is_table_row(line) THEN "hl-table"
    ELSE ""

Wrapped(class, line_html) == IF class = "" THEN line_html ELSE wrap_line(class, line_html)

\* a line emitted whole under a class, and the state it leaves
Emitted(st, class, line) ==
    [st |-> st, inline |-> FALSE, html |-> wrap_line(class, escape_html(line))]

\* a line of the normal state: the inline pass and the line's class
InlineLine(st, line, without_nl, caret, image_ctx) ==
    [st |-> IF OddComments(without_nl) THEN [st EXCEPT !.in_comment_block = TRUE] ELSE st,
     inline |-> TRUE,
     html |-> Wrapped(LineClass(without_nl),
                      highlight_inline(line, CaretRel(caret, st.offset, Len(line)), image_ctx))]

\* a line met outside every block, frontmatter_possible being settled
NormalLine_fence_opens_comment(st, line, without_nl, trimmed, caret, image_ctx) ==
    IF code_fence_open(without_nl) # None
    THEN Emitted([st EXCEPT !.code_fence = code_fence_open(without_nl),
                            !.in_comment_block = OddComments(without_nl)],
                 "hl-codeblock hl-code-fence", line)
    ELSE IF trimmed = <<"$", "$">>
    THEN Emitted([st EXCEPT !.in_math_block = TRUE], "hl-math-block", line)
    ELSE InlineLine(st, line, without_nl, caret, image_ctx)

NormalLine(st, line, without_nl, trimmed, caret, image_ctx) ==
    IF code_fence_open(without_nl) # None
    THEN Emitted([st EXCEPT !.code_fence = code_fence_open(without_nl)],
                 "hl-codeblock hl-code-fence", line)
    ELSE IF trimmed = <<"$", "$">>
    THEN Emitted([st EXCEPT !.in_math_block = TRUE], "hl-math-block", line)
    ELSE InlineLine(st, line, without_nl, caret, image_ctx)

\* if frontmatter_possible { ... if !trimmed.is_empty() { frontmatter_possible = false } }
FrontmatterSettled_stays_possible(st, trimmed) == st

FrontmatterSettled(st, trimmed) ==
    IF st.frontmatter_possible /\ trimmed # <<>>
    THEN [st EXCEPT !.frontmatter_possible = FALSE]
    ELSE st

\* the body of the loop of highlight_markdown for one line, the offset aside
LineStep(st, line, without_nl, trimmed, caret, image_ctx) ==
    IF st.code_fence # None
    THEN Emitted(IF code_fence_close(without_nl, Unwrap(st.code_fence).marker,
                                     Unwrap(st.code_fence).len)
                 THEN [st EXCEPT !.code_fence = None] ELSE st,
                 "hl-codeblock", line)
    ELSE IF st.in_math_block
    THEN Emitted(IF trimmed = <<"$", "$">> THEN [st EXCEPT !.in_math_block = FALSE] ELSE st,
                 "hl-math-block", line)
    ELSE IF st.in_frontmatter
    THEN Emitted(IF trimmed \in {<<"-", "-", "-">>, <<".", ".", ".">>}
                 THEN [st EXCEPT !.in_frontmatter = FALSE, !.frontmatter_possible = FALSE]
                 ELSE st,
                 "hl-frontmatter", line)
    ELSE IF st.in_comment_block
    THEN Emitted(IF OddComments(without_nl) THEN [st EXCEPT !.in_comment_block = FALSE] ELSE st,
                 "hl-comment", line)
    ELSE IF st.frontmatter_possible /\ trimmed = <<"-", "-", "-">>
    THEN Emitted([st EXCEPT !.in_frontmatter = TRUE], "hl-frontmatter", line)
    ELSE NormalLine(FrontmatterSettled(st, trimmed), line, without_nl, trimmed, caret, image_ctx)

\* offset += line_len
Advanced(r, line_len) == [r EXCEPT !.st.offset = @ + line_len]

BlockStep(st, line, caret, image_ctx) ==
    Advanced(LineStep(st, line, WithoutNewline(line), Trim(WithoutNewline(line)), caret, image_ctx),
             Len(line))

\* the loop over the lines: out collects what the lines emit
RECURSIVE BlockPass(_, _, _, _)
BlockPass(st, lines, caret, image_ctx) ==
    IF lines = <<>> THEN <<>>
    ELSE BlockStep(st, Head(lines), caret, image_ctx).html
         \o BlockPass(BlockStep(st, Head(lines), caret, image_ctx).st, Tail(lines), caret, image_ctx)

\* highlight_markdown(text, caret, None)
highlight_markdown(t, caret, image_ctx) == BlockPass(BlockStart, SplitInclusive(t), caret, image_ctx)

\* highlight_markdown_for_editor: previews are resolved only while a vault and
\* a note are open
highlight_markdown_for_editor(t, caret, vault_path_, current_file_, image_cache) ==
    highlight_markdown(
        t, caret,
        IF vault_path_ = <<>> \/ current_file_ = <<>>
        THEN None
        ELSE Some(ImageRenderContext(vault_path_, current_file_, image_cache)))

-----------------------------------------------------------------------------
(* The formatter specification: the application formats the text of the     *)
(* open note when the note is selected (without a caret) and whenever the   *)
(* selection changes (with the caret at the start of the selection)         *)

\* longest text of the formatter specification drawn from FormatChars
MaxFormatLen == 4

FormatChars == {"*", Backtick, "a", "\n"}

\* texts with the other constructs of the formatter
FormatSamples ==
    {<<"_", "_", "a", "_", "_", " ", "=", "=", "b", "=", "=", "~", "~">>,
     <<"\\", "*", "a", "*", "<", "&">>,
     <<"*", "*", "a", "*", "*">>,
     <<"*", "*", Backtick, "a", Backtick>>,
     <<"_", "_", "a", " ", "[", "[", "b", "]", "]">>,
     <<"%", "%", "a", "\n", "b", "%", "%", "\n", "*", "c", "*">>,
     <<"!", "[", "[", "a", ".", "p", "n", "g", "]", "]", "[", "[", "b", "|", "c", "]", "]">>,
     <<"!", "[", "a", "]", "(", "x", ":", "/", "/", "y", ".", "P", "N", "G", ")">>,
     <<"[", "a", "]", "(", "b", ")", " ", "#", "t", "/", "u", " ", "^", "i", "d">>,
     <<"$", "x", "$", " ", "[", "^", "n", "]", " ", "^", "[", "n", "]">>,
     <<"-", "-", "-", "\n", "a", ":", "b", "\n", ".", ".", ".", "\n", "#", " ", "*", "h", "*">>,
     <<"~", "~", "~", "\n", "*", "a", "*", "\n", "~", "~", "~", "~", "\n", "_", "b", "_">>,
     <<"$", "$", "\n", "*", "a", "*", "\n", "$", "$", "\n", "-", " ", "*", "b", "*">>,
     <<">", " ", "[", "!", "n", "]", "\n", ">", " ", "*", "q", "*", "\n", "*", " ", "*", " ", "*">>,
     <<"1", ")", " ", "a", "\n", "|", "a", "|", "\n", "-", "-", "-", "|", "-", "-", "-">>,
     <<"-", " ", "[", "x", "]", " ", "*", "t", "*", "\n", "[", "^", "n", "]", ":", " ", "d">>}

FormatTexts == SeqsUpTo(FormatChars, MaxFormatLen) \cup FormatSamples

\* select_file: the note is shown formatted without a caret
FormatInit ==
    \E t \in FormatTexts :
        /\ text = EditorSnapshot_new(t).text
        /\ selection = EditorSnapshot_new(t).selection
        /\ revision = EditorSnapshot_new(t).revision
        /\ call = Call("new", t, NoSelection, NoTransaction, NoCommand)
        /\ pre = EditorSnapshot_new(t)
        /\ ret = Outcome("Unit", FALSE, FALSE, 0, NoInfo)
        /\ caret_pos = None
        /\ parsed_html = highlight_markdown(t, None, None)
        /\ NoVault
        /\ NoImport
        /\ NoDeferred

\* the selectionchange handler: the selection read from the view is clamped
\* and stored, and the text is formatted with the caret at its start
SelectionSynced(start, end) ==
    /\ selection' = Selection_clamp(Selection_new(start, end), Len(text))
    /\ caret_pos' = Some(Selection_clamp(Selection_new(start, end), Len(text)).start)
    /\ parsed_html' =
         highlight_markdown_for_editor(
             text, Some(Selection_clamp(Selection_new(start, end), Len(text)).start),
             vault_path, current_file, image_preview_cache)
    /\ UNCHANGED <<text, revision, call, pre, ret, vault, host>>

SelectionChange ==
    /\ \E start \in 0..Len(text) :
           \E end \in {start, Len(text)} : SelectionSynced(start, end)
    /\ UNCHANGED deferred

\* select_file on the note that is open: a fresh snapshot, no caret
SelectFile ==
    /\ selection' = EditorSnapshot_new(text).selection
    /\ caret_pos' = None
    /\ parsed_html' =
         highlight_markdown_for_editor(text, None, vault_path, current_file, image_preview_cache)
    /\ UNCHANGED <<text, revision, call, pre, ret, vault, host, deferred>>

FormatNext ==
    \/ SelectionChange
    \/ SelectFile

SpecFormat == FormatInit /\ [][FormatNext]_vars

\* the block texts have at most this many lines
MaxBlockLines == 3

\* the lines the block texts are made of: the delimiters of the blocks, with
\* and without indentation, a comment on one line, a fence whose info string
\* is a comment token, and a line of inline markup
BlockLines ==
    {<<"-", "-", "-">>, <<" ", "-", "-", "-", " ">>, <<".", ".", ".">>,
     <<Backtick, Backtick, Backtick>>, <<Backtick, Backtick, Backtick, Backtick>>,
     <<" ", Backtick, Backtick, Backtick, " ">>, <<"~", "~", "~">>,
     <<"$", "$">>, <<"%", "%">>, <<"%", "%", "a", "%", "%">>,
     <<Backtick, Backtick, Backtick, "%", "%">>, <<"*", "a", "*">>, <<>>}

\* the lines joined by newlines
RECURSIVE JoinedByNewline(_)
JoinedByNewline(lines) ==
    IF lines = <<>> THEN <<>>
    ELSE IF Len(lines) = 1 THEN lines[1]
    ELSE lines[1] \o <<"\n">> \o JoinedByNewline(Tail(lines))

BlockTexts == {JoinedByNewline(lines) : lines \in SeqsUpTo(BlockLines, MaxBlockLines)}

BlocksInit ==
    \E t \in BlockTexts :
        /\ text = EditorSnapshot_new(t).text
        /\ selection = EditorSnapshot_new(t).selection
        /\ revision = EditorSnapshot_new(t).revision
        /\ call = Call("new", t, NoSelection, NoTransaction, NoCommand)
        /\ pre = EditorSnapshot_new(t)
        /\ ret = Outcome("Unit", FALSE, FALSE, 0, NoInfo)
        /\ caret_pos = None
        /\ parsed_html = highlight_markdown(t, None, None)
        /\ NoVault
        /\ NoImport
        /\ NoDeferred

\* the offsets at which the lines of t start
LineStarts(t) == {0} \cup {i \in 1..(Len(t) - 1) : t[i] = "\n"}

\* the selectionchange handler, the caret being put at the start of a line
SelectionChangeAtLine ==
    /\ \E start \in LineStarts(text) : SelectionSynced(start, start)
    /\ UNCHANGED deferred

BlocksNext ==
    \/ SelectionChangeAtLine
    \/ SelectFile

SpecBlocks == BlocksInit /\ [][BlocksNext]_vars

-----------------------------------------------------------------------------
(* Metadata indexer: the maps of MetadataCacheState are functions whose     *)
(* domain is the set of keys present; paths, links and tags are texts.      *)

\* HashMap: get with a default, insert, entry(key).or_default().push(value),
\* *entry(key).or_insert(0) += 1
Entry(map, key, default) == IF key \in DOMAIN map THEN map[key] ELSE default
Insert(map, key, value) ==
    [k \in DOMAIN map \cup {key} |-> IF k = key THEN value ELSE map[k]]
Push(map, key, value) == Insert(map, key, Append(Entry(map, key, <<>>), value))
Increment(map, key) == Insert(map, key, Entry(map, key, 0) + 1)

\* s.trim_matches(c)
TrimStartMatches(s, c) == Slice(s, RunInside(s, 0, {c}), Len(s))
TrimEndMatches(s, c) == Slice(s, 0, SetMax({0} \cup {i \in 1..Len(s) : s[i] # c}))
TrimMatches(s, c) == TrimEndMatches(TrimStartMatches(s, c), c)

normalize_rel_path(path) == TrimMatches(Replace(Trim(path), "\\", "/"), "/")

\* s.ends_with(suffix), s.starts_with(prefix)
EndsWith(s, suffix) ==
    Len(s) >= Len(suffix) /\ Slice(s, Len(s) - Len(suffix), Len(s)) = suffix

\* str::lines: the lines without their "\n" or "\r\n"
StripCarriageReturn(part) ==
    IF EndsWith(part, <<"\r", "\n">>) THEN Slice(part, 0, Len(part) - 2)
    ELSE WithoutNewline(part)

StripAll(parts) == [i \in 1..Len(parts) |-> StripCarriageReturn(parts[i])]

Lines(t) == StripAll(SplitInclusive(t))

\* the heading of a line:  ^(#{1,6})[ \t]+(.+?)\s*$  with its text trimmed
HeadingCache(level, heading, line) == [level |-> level, text |-> heading, line |-> line]

HeadingAfter(line, hashes, idx) ==
    IF /\ hashes \in 1..6
       /\ Len(line) >= hashes + 2
       /\ line[hashes + 1] \in {" ", "\t"}
       /\ \A i \in 1..Len(line) : line[i] # "\n"
    THEN <<HeadingCache(hashes, Trim(Slice(line, hashes, Len(line))), idx)>>
    ELSE <<>>

RECURSIVE HeadingsFrom(_, _)
HeadingsFrom(lines, idx) ==
    IF idx > Len(lines) THEN <<>>
    ELSE HeadingAfter(lines[idx], RunInside(lines[idx], 0, {"#"}), idx)
         \o HeadingsFrom(lines, idx + 1)

\* the tags of a line, without the "#", lower-cased
TagsOf(line, matches) ==
    [k \in 1..Len(matches) |->
        to_ascii_lowercase(
            TrimStartMatches(Slice(line, matches[k].start, matches[k].end), "#"))]

RECURSIVE TagsFrom(_, _)
TagsFrom(lines, idx) ==
    IF idx > Len(lines) THEN <<>>
    ELSE TagsOf(lines[idx], FindIter("tag", lines[idx], 0)) \o TagsFrom(lines, idx + 1)

\* the link of a wiki link [[inner]]: alias and heading suffix stripped
WikiLink(raw_inner) == Trim(UpTo(UpTo(raw_inner, {"|"}), {"#"}))

WikiLinkOf(t, m) ==
    IF WikiLink(Slice(t, m.start + 2, m.end - 2)) = <<>> THEN <<>>
    ELSE <<normalize_rel_path(WikiLink(Slice(t, m.start + 2, m.end - 2)))>>

RECURSIVE WikiLinks(_, _, _)
WikiLinks(t, matches, k) ==
    IF k > Len(matches) THEN <<>>
    ELSE WikiLinkOf(t, matches[k]) \o WikiLinks(t, matches, k + 1)

\* the offset at which the target (capture 1) of a match of
\* !?\[[^\]\n]*\]\(([^)\n]+)\)  starts, the "[" being at offset bracket
TargetStart(t, bracket) == bracket + 1 + RunOutside(t, bracket + 1, {"]", "\n"}) + 2

RawTarget(t, m) ==
    Trim(Slice(t, TargetStart(t, IF t[m.start + 1] = "!" THEN m.start + 1 ELSE m.start),
               m.end - 1))

\* a prefix that is a text, not a character
StartsWithText(s, prefix) == HasAt(s, 0, prefix)

\* the link of a markdown link or image with the given target, if it is one
\* to a note: anchors, URLs and mailto links are skipped
MarkdownLink(target) ==
    IF target = <<>> \/ StartsWith(target, "#") THEN <<>>
    ELSE IF \/ Contains(to_ascii_lowercase(target), <<":", "/", "/">>)
            \/ StartsWithText(to_ascii_lowercase(target),
                              <<"m", "a", "i", "l", "t", "o", ":">>)
    THEN <<>>
    ELSE IF Trim(UpTo(UpTo(target, {"#"}), {"?"})) = <<>> THEN <<>>
    ELSE <<normalize_rel_path(Trim(UpTo(UpTo(target, {"#"}), {"?"})))>>

RECURSIVE MarkdownLinks(_, _, _)
MarkdownLinks(t, matches, k) ==
    IF k > Len(matches) THEN <<>>
    ELSE MarkdownLink(TrimMatches(TrimMatches(RawTarget(t, matches[k]), "<"), ">"))
         \o MarkdownLinks(t, matches, k + 1)

FileCache(headings, tags, links) == [headings |-> headings, tags |-> tags, links |-> links]

NoFileCache == FileCache(<<>>, <<>>, <<>>)

\* the cache of a text with the given lines
ExtractedFrom(t, lines) ==
    FileCache(HeadingsFrom(lines, 1),
              Dedup(Sort(TagsFrom(lines, 1))),
              Dedup(Sort(WikiLinks(t, FindIter("wiki", t, 0), 1)
                         \o MarkdownLinks(t, FindIter("link_or_image", t, 0), 1))))

extract_file_cache(t) == ExtractedFrom(t, Lines(t))

\* Path::file_stem: the file name up to its last dot, whole when it has no
\* dot or only a leading one
StemBefore(name, dots) ==
    IF dots = {} \/ SetMax(dots) = 1 THEN name ELSE Slice(name, 0, SetMax(dots) - 1)

file_stem(path) ==
    IF file_name(path) = None THEN None
    ELSE Some(StemBefore(Unwrap(file_name(path)),
                         {i \in 1..Len(Unwrap(file_name(path))) :
                             Unwrap(file_name(path))[i] = "."}))

\* Path::new(path).file_stem().unwrap_or(path), lower-cased
LowerStem(path) ==
    to_ascii_lowercase(IF file_stem(path) = None THEN path ELSE Unwrap(file_stem(path)))

DotMd == <<".", "m", "d">>

WithExtension(path, raw_has_ext) == IF raw_has_ext THEN path ELSE path \o DotMd

\* source_path.rsplit_once('/'): the directory of the source note, or ""
SourceDir(source_path) ==
    IF \E i \in 1..Len(source_path) : source_path[i] = "/"
    THEN Slice(source_path, 0,
               SetMax({i \in 1..Len(source_path) : source_path[i] = "/"}) - 1)
    ELSE <<>>

\* the candidate from the source's folder tried before the literal one
LinkCandidates_folder_first(raw, source_dir, raw_has_ext) ==
    (IF Contains(raw, <<"/">>) /\ source_dir # <<>>
     THEN <<WithExtension(normalize_rel_path(source_dir \o <<"/">> \o raw), raw_has_ext)>>
     ELSE <<>>)
    \o <<WithExtension(raw, raw_has_ext)>>

\* the candidates of resolve_linkpath for the normalized link raw
LinkCandidates(raw, source_dir, raw_has_ext) ==
    <<WithExtension(raw, raw_has_ext)>>
    \o (IF Contains(raw, <<"/">>) /\ source_dir # <<>>
        THEN <<WithExtension(normalize_rel_path(source_dir \o <<"/">> \o raw), raw_has_ext)>>
        ELSE <<>>)

\* the fall-back of resolve_linkpath: the only note with the stem
StemLookup(stem, stem_lookup) ==
    IF stem \in DOMAIN stem_lookup /\ Len(stem_lookup[stem]) = 1
    THEN Some(stem_lookup[stem][1])
    ELSE None

\* the key of the lookup returned in place of the stored path
RECURSIVE FirstFound_returns_key(_, _, _, _)
FirstFound_returns_key(candidates, raw, file_lookup, stem_lookup) ==
    IF candidates = <<>> THEN StemLookup(LowerStem(raw), stem_lookup)
    ELSE IF to_ascii_lowercase(Head(candidates)) \in DOMAIN file_lookup
    THEN Some(to_ascii_lowercase(Head(candidates)))
    ELSE FirstFound_returns_key(Tail(candidates), raw, file_lookup, stem_lookup)

RECURSIVE FirstFound(_, _, _, _)
FirstFound(candidates, raw, file_lookup, stem_lookup) ==
    IF candidates = <<>> THEN StemLookup(LowerStem(raw), stem_lookup)
    ELSE IF to_ascii_lowercase(Head(candidates)) \in DOMAIN file_lookup
    THEN Some(file_lookup[to_ascii_lowercase(Head(candidates))])
    ELSE FirstFound(Tail(candidates), raw, file_lookup, stem_lookup)

ResolveNormalized(raw, source_path, file_lookup, stem_lookup) ==
    IF raw = <<>> THEN None
    ELSE FirstFound(LinkCandidates(raw, SourceDir(source_path),
                                   EndsWith(to_ascii_lowercase(raw), DotMd)),
                    raw, file_lookup, stem_lookup)

resolve_linkpath(linkpath, source_path, file_lookup, stem_lookup) ==
    ResolveNormalized(normalize_rel_path(linkpath), source_path, file_lookup, stem_lookup)

\* the first loop of build_metadata_cache: the lookups
RECURSIVE FileLookup(_, _)
FileLookup(dir_list, n) ==
    IF n = 0 THEN NoEntries
    ELSE Insert(FileLookup(dir_list, n - 1), to_ascii_lowercase(dir_list[n]), dir_list[n])

RECURSIVE StemLookupOf(_, _)
StemLookupOf(dir_list, n) ==
    IF n = 0 THEN NoEntries
    ELSE Push(StemLookupOf(dir_list, n - 1), LowerStem(dir_list[n]), dir_list[n])

RECURSIVE PushAllTags(_, _, _)
PushAllTags(tags_index, tags, path) ==
    IF tags = <<>> THEN tags_index
    ELSE PushAllTags(Push(tags_index, Head(tags), path), Tail(tags), path)

\* one file of the first loop: its cache is stored and its tags are indexed
ExtractedFile(state, path, cache) ==
    MetadataCacheState(Insert(state.file_cache, path, cache),
                       NoEntries, NoEntries, NoEntries,
                       PushAllTags(state.tags_index, cache.tags, path))

\* the first loop of build_metadata_cache: the caches and the tag index
RECURSIVE Extracted(_, _, _)
Extracted(notes, dir_list, n) ==
    IF n = 0 THEN MetadataCacheState_default
    ELSE ExtractedFile(Extracted(notes, dir_list, n - 1), dir_list[n],
                       extract_file_cache(Entry(notes, dir_list[n], <<>>)))

\* one link of the second loop: recorded as resolved, with its backlink, or
\* as unresolved
RecordLink(state, path, link, target) ==
    IF target # None
    THEN MetadataCacheState(
             state.file_cache,
             Insert(state.resolved_links, path,
                    Increment(Entry(state.resolved_links, path, NoEntries), Unwrap(target))),
             state.unresolved_links,
             Push(state.backlinks, Unwrap(target), path),
             state.tags_index)
    ELSE MetadataCacheState(
             state.file_cache,
             state.resolved_links,
             Insert(state.unresolved_links, path,
                    Increment(Entry(state.unresolved_links, path, NoEntries), link)),
             state.backlinks,
             state.tags_index)

RECURSIVE RecordLinks(_, _, _, _, _)
RecordLinks(state, path, links, file_lookup, stem_lookup) ==
    IF links = <<>> THEN state
    ELSE RecordLinks(
             RecordLink(state, path, Head(links),
                        resolve_linkpath(Head(links), path, file_lookup, stem_lookup)),
             path, Tail(links), file_lookup, stem_lookup)

\* the second loop of build_metadata_cache, from the n-th file on
RECURSIVE Linked(_, _, _, _, _)
Linked(state, dir_list, n, file_lookup, stem_lookup) ==
    IF n > Len(dir_list) THEN state
    ELSE Linked(
             RecordLinks(state, dir_list[n], Entry(state.file_cache, dir_list[n], NoFileCache).links,
                         file_lookup, stem_lookup),
             dir_list, n + 1, file_lookup, stem_lookup)

\* the lists left as they were pushed
SortedLists_as_pushed(map) == map

\* the last loops: every list of the map sorted and deduplicated
SortedLists(map) == [k \in DOMAIN map |-> Dedup(Sort(map[k]))]

Finished(state) ==
    MetadataCacheState(state.file_cache, state.resolved_links, state.unresolved_links,
                       SortedLists(state.backlinks), SortedLists(state.tags_index))

build_metadata_cache(notes, dir_list) ==
    Finished(Linked(Extracted(notes, dir_list, Len(dir_list)), dir_list, 1,
                    FileLookup(dir_list, Len(dir_list)), StemLookupOf(dir_list, Len(dir_list))))


-----------------------------------------------------------------------------
(* The application with a vault open: the vault is read, notes are selected *)
(* and edited, and the metadata cache is rebuilt in full after every edit.  *)

NoteA == <<"A", ".", "m", "d">>
NoteB == <<"B", ".", "m", "d">>
NoteDB == <<"d", "/", "B", ".", "m", "d">>
NoteEB == <<"e", "/", "b", ".", "m", "d">>
NoteDEB == <<"d", "/", "e", "/", "b", ".", "m", "d">>
NoteEEB == <<"e", "/", "e", "/", "b", ".", "m", "d">>
NoteLowerB == <<"b", ".", "m", "d">>

IndexPaths == {NoteA, NoteB, NoteDB, NoteEB, NoteDEB, NoteEEB, NoteLowerB}

\* note texts: two different links to one note; a wiki link written twice
\* and a markdown link; a link to no note, written twice, with a tag; a link
\* by stem under a heading, with an image; a link with a folder
TwoLinksToB ==
    <<"[", "[", "B", "]", "]", "[", "[", "b", ".", "m", "d", "|", "x", "]", "]">>
LinksToAAndDB ==
    <<"[", "[", "A", "]", "]", "[", "x", "]", "(", "d", "/", "B", ".", "m", "d", ")", "[", "[", "A", "]", "]">>
LinkToNoNote == <<"[", "[", "Z", "]", "]", " ", "#", "t", " ", "[", "[", "Z", "]", "]">>
LinkByStem ==
    <<"#", " ", "h", "\n", "[", "[", "b", "#", "h", "]", "]", "!", "[", "i", "]", "(", "A", ")">>
LinkRelative == <<"[", "[", "e", "/", "b", "]", "]">>

IndexTexts == {<<>>, TwoLinksToB, LinksToAAndDB, LinkToNoNote, LinkByStem, LinkRelative}

\* the texts typed into the open note
EditTexts == {<<>>, TwoLinksToB, LinkToNoNote}

\* what read_dir and read_vault_notes return for a vault
Vault(dir_list, texts) ==
    [files |-> dir_list,
     notes |-> [p \in {dir_list[i] : i \in 1..Len(dir_list)} |->
                  texts[CHOOSE i \in 1..Len(dir_list) : dir_list[i] = p]]]

\* the vaults: listings in and out of order, notes that share a stem with
\* and without a note of that name at the root, a note in a folder of the
\* source's folder, a note whose folder has a folder of the same name, two
\* notes whose paths differ in casing only
Vaults ==
    {Vault(<<>>, <<>>),
     Vault(<<NoteDB>>, <<LinkByStem>>),
     Vault(<<NoteB, NoteA>>, <<LinksToAAndDB, LinksToAAndDB>>),
     Vault(<<NoteB, NoteDB>>, <<LinkByStem, TwoLinksToB>>),
     Vault(<<NoteEB, NoteDB>>, <<LinkByStem, LinksToAAndDB>>),
     Vault(<<NoteDB, NoteDEB>>, <<LinkRelative, <<>>>>),
     Vault(<<NoteEB, NoteEEB>>, <<LinkRelative, LinkRelative>>),
     Vault(<<NoteLowerB, NoteB>>, <<TwoLinksToB, LinkToNoNote>>)}

\* the listing as a set
Listed(listing) == {listing[i] : i \in 1..Len(listing)}

\* the file refresh_vault_snapshot selects: the preferred one if listed, else
\* the open one if listed, else the first
NextFile(preferred_file, dir_list) ==
    IF preferred_file # None /\ Unwrap(preferred_file) \in Listed(dir_list)
    THEN preferred_file
    ELSE IF current_file # <<>> /\ current_file \in Listed(dir_list)
    THEN Some(current_file)
    ELSE IF dir_list # <<>> THEN Some(dir_list[1]) ELSE None

\* the editor shows a note's text: a fresh snapshot, formatted without caret
Shows(t, vault_path_, filename, image_cache) ==
    /\ text' = EditorSnapshot_new(t).text
    /\ selection' = EditorSnapshot_new(t).selection
    /\ revision' = EditorSnapshot_new(t).revision
    /\ call' = Call("new", t, NoSelection, NoTransaction, NoCommand)
    /\ pre' = EditorSnapshot_new(t)
    /\ ret' = Outcome("Unit", FALSE, FALSE, 0, NoInfo)
    /\ caret_pos' = None
    /\ parsed_html' = highlight_markdown_for_editor(t, None, vault_path_, filename, image_cache)

\* the end of refresh_vault_snapshot: the selected note is opened, or none
Opens(next_file, note_map) ==
    IF next_file # None
    THEN /\ current_file' = Unwrap(next_file)
         /\ Shows(Entry(note_map, Unwrap(next_file), <<>>), vault_path, Unwrap(next_file),
                  NoEntries)
    ELSE /\ current_file' = <<>>
         /\ text' = <<>>
         /\ selection' = EditorSnapshot_new(<<>>).selection
         /\ revision' = 0
         /\ call' = Call("new", <<>>, NoSelection, NoTransaction, NoCommand)
         /\ pre' = EditorSnapshot_new(<<>>)
         /\ ret' = Outcome("Unit", FALSE, FALSE, 0, NoInfo)
         /\ caret_pos' = None
         /\ parsed_html' = <<>>

RefreshVaultSnapshot ==
    \E v \in Vaults, preferred_file \in {None, Some(NoteB)} :
        /\ files' = v.files
        /\ note_texts' = v.notes
        /\ metadata_cache' = build_metadata_cache(v.notes, v.files)
        /\ Opens(NextFile(preferred_file, v.files), v.notes)
        /\ UNCHANGED <<host, deferred>>

Range(seq) == {seq[k] : k \in 1..Len(seq)}

\* collect_image_targets_for_note, without the flag that tells an embed from a
\* markdown image: the targets of the embeds, then those of the images
EmbedTargets(t, found) ==
    [k \in 1..Len(found) |-> strip_wiki_target(Slice(t, found[k].start + 3, found[k].end - 2))]

ImageTargets(t, found) ==
    [k \in 1..Len(found) |->
        strip_markdown_image_target(Slice(t, AltEnd(t, found[k].start) + 2, found[k].end - 1))]

collect_image_targets_for_note(t) ==
    EmbedTargets(t, FindIter("embed", t, 0)) \o ImageTargets(t, FindIter("md_image", t, 0))

\* image_mime_for_path
image_mime_for_path(path) ==
    CASE image_extension(path) = Some(<<"p", "n", "g">>) -> <<"image/png">>
      [] image_extension(path) \in {Some(<<"j", "p", "g">>), Some(<<"j", "p", "e", "g">>)} ->
             <<"image/jpeg">>
      [] image_extension(path) = Some(<<"g", "i", "f">>) -> <<"image/gif">>
      [] image_extension(path) = Some(<<"w", "e", "b", "p">>) -> <<"image/webp">>
      [] image_extension(path) = Some(<<"b", "m", "p">>) -> <<"image/bmp">>
      [] image_extension(path) = Some(<<"s", "v", "g">>) -> <<"image/svg+xml">>
      [] image_extension(path) \in {Some(<<"t", "i", "f">>), Some(<<"t", "i", "f", "f">>)} ->
             <<"image/tiff">>
      [] image_extension(path) = Some(<<"i", "c", "o">>) -> <<"image/x-icon">>
      [] image_extension(path) = Some(<<"a", "v", "i", "f">>) -> <<"image/avif">>
      [] image_extension(path) = Some(<<"h", "e", "i", "c">>) -> <<"image/heic">>
      [] image_extension(path) = Some(<<"h", "e", "i", "f">>) -> <<"image/heif">>
      [] OTHER -> <<"application/octet-stream">>

\* format!("data:{};base64,{}", image_mime_for_path(&image_path), encoded)
DataUrl(image_path, encoded) ==
    <<"d", "a", "t", "a", ":">> \o image_mime_for_path(image_path)
        \o <<";", "b", "a", "s", "e", "6", "4", ",">> \o encoded

\* the image prefetch effect: the candidates of a local image none of whose
\* candidates the cache holds, but those that are loading or have failed
PendingOf(candidates, cache, loading, failed) ==
    IF \E k \in 1..Len(candidates) : candidates[k] \in DOMAIN cache THEN {}
    ELSE {candidate \in Range(candidates) : candidate \notin loading /\ candidate \notin failed}

PendingOfTarget(v_path, file, target, cache, loading, failed) ==
    IF target = <<>> \/ looks_like_external_url(target) \/ ~is_supported_inline_image_path(target)
    THEN {}
    ELSE PendingOf(image_local_candidates(v_path, file, target), cache, loading, failed)

pending_paths(v_path, file, t, cache, loading, failed) ==
    IF v_path = <<>> \/ file = <<>> \/ t = <<>> THEN {}
    ELSE UNION {PendingOfTarget(v_path, file, target, cache, loading, failed) :
                    target \in Range(collect_image_targets_for_note(t))}

\* the effect runs when the text, the note or the vault changes: every pending
\* path is marked as loading and its load is started; the loads that are in
\* flight are those of the paths marked
Prefetched(file, t) ==
    image_preview_loading' =
        image_preview_loading
            \cup pending_paths(vault_path, file, t, image_preview_cache,
                               image_preview_loading, image_preview_failed)

\* select_file for a note whose text the application holds: the note is
\* shown, and the prefetch effect runs; the save timer is left alone
SelectListedFile ==
    \E filename \in Listed(files) \cap DOMAIN note_texts :
        /\ current_file' = filename
        /\ Shows(note_texts[filename], vault_path, filename, image_preview_cache)
        /\ Prefetched(filename, note_texts[filename])
        /\ UNCHANGED <<files, note_texts, metadata_cache, host, vault_path, save_timeout_id,
                       timeouts, write_calls, selection_restore_ticket, selection_sync_ticket,
                       frames, frame_ran, dom_selection, is_composing, composition_dirty,
                       image_preview_cache, image_preview_failed>>

\* the metadata part of apply_editor_update: the open note's text is replaced
\* and the cache rebuilt, unless no note is open
Reindexed(final_text) ==
    IF current_file # <<>>
    THEN /\ note_texts' = Insert(note_texts, current_file, final_text)
         /\ metadata_cache' =
                build_metadata_cache(Insert(note_texts, current_file, final_text), files)
    ELSE UNCHANGED <<note_texts, metadata_cache>>

\* apply_editor_update on the snapshot snap that the application holds, r
\* being what replace_from_input makes of it
EditorUpdatedOn(snap, new_text, input_selection, r) ==
    /\ text' = r.snap.text
    /\ selection' = r.snap.selection
    /\ revision' = r.snap.revision
    /\ call' = Call("replace_from_input", new_text, input_selection, NoTransaction, NoCommand)
    /\ pre' = snap
    /\ ret' = r.ret
    /\ caret_pos' = Some(r.snap.selection.start)
    /\ parsed_html' =
         highlight_markdown_for_editor(r.snap.text, Some(r.snap.selection.start),
                                       vault_path, current_file, image_preview_cache)
    /\ Reindexed(r.snap.text)
    /\ UNCHANGED <<files, current_file, host>>

\* apply_editor_update with the text and selection read from the view
EditorUpdated(new_text, input_selection, r) ==
    EditorUpdatedOn(Current, new_text, input_selection, r)

ApplyEditorUpdate ==
    /\ \E new_text \in EditTexts :
           /\ revision < MaxRevision
           /\ EditorUpdated(new_text, Selection_new(Len(new_text), Len(new_text)),
                            replace_from_input(Current, new_text,
                                               Selection_new(Len(new_text), Len(new_text))))
    /\ UNCHANGED deferred

IndexInit ==
    /\ text = EditorSnapshot_new(<<>>).text
    /\ selection = EditorSnapshot_new(<<>>).selection
    /\ revision = EditorSnapshot_new(<<>>).revision
    /\ call = Call("new", <<>>, NoSelection, NoTransaction, NoCommand)
    /\ pre = EditorSnapshot_new(<<>>)
    /\ ret = Outcome("Unit", FALSE, FALSE, 0, NoInfo)
    /\ caret_pos = None
    /\ parsed_html = <<>>
    /\ NoVault
    /\ NoImport
    /\ NoDeferred

IndexNext ==
    \/ RefreshVaultSnapshot
    \/ SelectListedFile
    \/ ApplyEditorUpdate

SpecIndex == IndexInit /\ [][IndexNext]_vars

-----------------------------------------------------------------------------
(* What the handlers defer (app.rs): the save of the open note on a timer,  *)
(* the selection of the view on animation-frame callbacks, the text typed   *)
(* during a composition, and the previews of local images on loads that     *)
(* the host answers later.  The specifications above follow the handlers    *)
(* up to what they defer: they hold no vault path, so nothing is saved and  *)
(* no image is loaded, and what their handlers show does not depend on the  *)
(* callbacks.  Here a note of a vault is open and the handlers are followed *)
(* in full.  The text of the view is the text of the last input event.      *)
(* The window sets every timer it is asked for, and hands out the least     *)
(* handle that no pending timer has.  The tickets are u64 counters that     *)
(* wrap; they are followed up to MaxTicket, far below the wrap.             *)

\* The files of the host.  A path of the host is the sequence of its
\* components, each a text, <<>> being the root; the file system holds a node
\* for every path that exists: a folder, or a file with its content.
Folder == [is_dir |-> TRUE, content |-> ""]
File(content) == [is_dir |-> FALSE, content |-> content]

\* Path::exists and Path::is_dir
exists(disk, path) == path = <<>> \/ path \in DOMAIN disk
is_dir(disk, path) == path = <<>> \/ (path \in DOMAIN disk /\ disk[path].is_dir)
is_file(disk, path) == path \in DOMAIN disk /\ ~disk[path].is_dir

\* Path::parent of a path that is not the root
Parent(path) == SubSeq(path, 1, Len(path) - 1)

Ancestors(path) == {SubSeq(path, 1, k) : k \in 1..Len(path)}

\* Path::starts_with: whole components
PathStartsWith(path, base) ==
    Len(base) <= Len(path) /\ SubSeq(path, 1, Len(base)) = base

\* fs::create_dir_all: it fails, creating nothing, when a file is in the way
CanCreateDirAll(disk, path) == \A p \in Ancestors(path) : p \in DOMAIN disk => disk[p].is_dir

create_dir_all(disk, path) ==
    [p \in DOMAIN disk \cup Ancestors(path) |-> IF p \in DOMAIN disk THEN disk[p] ELSE Folder]

\* fs::write: it fails when the parent is no folder or the path is a folder
CanWrite(disk, path) == path # <<>> /\ is_dir(disk, Parent(path)) /\ ~is_dir(disk, path)

write(disk, path, content) ==
    [p \in DOMAIN disk \cup {path} |-> IF p = path THEN File(content) ELSE disk[p]]

\* the path of the host that the application names by a text
DiskPath(file_path) == SelectSeq(SplitOn(file_path, "/"), LAMBDA part : part # <<>>)

\* write_file of the host: fs::write, whose failure the callback ignores
write_file(disk, file_path, content) ==
    IF CanWrite(disk, DiskPath(file_path))
    THEN write(disk, DiskPath(file_path), content)
    ELSE disk

\* a timer of schedule_disk_write: its handle and what its callback captured
Timeout(id, file_path, new_text) == [id |-> id, file_path |-> file_path, new_text |-> new_text]

FreshHandle(pending) ==
    CHOOSE id \in 1..(Cardinality(pending) + 1) : \A timeout \in pending : timeout.id # id

\* win.clear_timeout_with_handle(timeout) for the handle that is tracked
Cleared_keeps_timer(pending, tracked) == pending

Cleared(pending, tracked) == {timeout \in pending : Some(timeout.id) # tracked}

\* format!("{}/{}", v_path, filename)
FilePath(v_path, filename) == v_path \o <<"/">> \o filename

Scheduled(pending, file_path, new_text) ==
    /\ timeouts' = pending \cup {Timeout(FreshHandle(pending), file_path, new_text)}
    /\ save_timeout_id' = Some(FreshHandle(pending))

schedule_disk_write(filename, new_text) ==
    IF filename = <<>> \/ vault_path = <<>>
    THEN UNCHANGED <<save_timeout_id, timeouts>>
    ELSE Scheduled(Cleared(timeouts, save_timeout_id), FilePath(vault_path, filename), new_text)

\* an animation-frame callback: its kind, the ticket it expects and, for a
\* restore, the selection it restores
Frame(kind, expected_ticket, selection_to_restore) ==
    [kind |-> kind, expected_ticket |-> expected_ticket, selection |-> selection_to_restore]

\* schedule_selection_restore, the callbacks pending being those of queue
schedule_selection_restore(selection_to_restore, queue) ==
    /\ selection_restore_ticket' = selection_restore_ticket + 1
    /\ frames' = Append(queue, Frame("restore", selection_restore_ticket + 1,
                                     selection_to_restore))

\* the first check of a callback: the ticket is no longer the one expected
Stale_never(ticket, expected_ticket) == FALSE

Stale(ticket, expected_ticket) == ticket # expected_ticket

\* the record of the callback that ran: latest is the ticket at that time
Ran(frame, latest) ==
    [kind |-> frame.kind, expected_ticket |-> frame.expected_ticket, latest |-> latest,
     applied |-> ~Stale(latest, frame.expected_ticket)]

\* apply_editor_update on the snapshot snap that the application holds, r
\* being what replace_from_input makes of it
UpdateApplied(snap, new_text, input_selection, r) ==
    /\ composition_dirty' = FALSE
    /\ EditorUpdatedOn(snap, new_text, input_selection, r)
    /\ schedule_disk_write(current_file, r.snap.text)
    /\ schedule_selection_restore(r.snap.selection, frames)
    /\ Prefetched(current_file, r.snap.text)
    /\ UNCHANGED <<vault_path, write_calls, selection_sync_ticket, frame_ran,
                   image_preview_cache, image_preview_failed>>

\* apply_editor_update, r being what replace_from_input makes of the snapshot
apply_editor_update(new_text, input_selection, r) ==
    UpdateApplied(Current, new_text, input_selection, r)

\* apply_composition_shadow_update: the text is taken and nothing is shown,
\* indexed or saved
apply_composition_shadow_update(new_text, input_selection, r) ==
    /\ text' = r.snap.text
    /\ selection' = r.snap.selection
    /\ revision' = r.snap.revision
    /\ call' = Call("replace_from_input", new_text, input_selection, NoTransaction, NoCommand)
    /\ pre' = Current
    /\ ret' = r.ret
    /\ caret_pos' = Some(r.snap.selection.start)
    /\ composition_dirty' = TRUE
    /\ Prefetched(current_file, r.snap.text)
    /\ UNCHANGED <<parsed_html, vault, host, vault_path, save_timeout_id, timeouts,
                   write_calls, selection_restore_ticket, selection_sync_ticket, frames,
                   frame_ran, image_preview_cache, image_preview_failed>>

\* the vault that is open, and its note with an embedded image
VaultPath == <<"/", "v">>

EmbedOfImage == <<"!", "[", "[", "i", ".", "p", "n", "g", "]", "]">>

\* the texts typed
TypedTexts == {<<"a">>, EmbedOfImage, <<"a">> \o EmbedOfImage}

\* update_content: the input event of the editor, the user having typed
\* new_text with the caret left at input_selection
Typed(new_text, input_selection) ==
    /\ dom_selection' = Some(input_selection)
    /\ UNCHANGED is_composing
    /\ IF is_composing
       THEN apply_composition_shadow_update(
                new_text, input_selection, replace_from_input(Current, new_text, input_selection))
       ELSE apply_editor_update(
                new_text, input_selection, replace_from_input(Current, new_text, input_selection))

UpdateContent ==
    /\ revision < MaxRevision
    /\ selection_restore_ticket < MaxTicket
    /\ \E new_text \in TypedTexts :
           Typed(new_text, Selection_clamp(Selection_cursor(Len(new_text)), Len(new_text)))

\* the save timer fires: the handle is forgotten and write_file is called
\* with what the callback captured
SaveTimeout ==
    \E timeout \in timeouts :
        /\ timeouts' = timeouts \ {timeout}
        /\ save_timeout_id' = None
        /\ write_calls' =
               Append(write_calls, [path |-> timeout.file_path, content |-> timeout.new_text])
        /\ fs' = write_file(fs, timeout.file_path, timeout.new_text)
        /\ UNCHANGED <<editor, vault, import, vault_path, selection_restore_ticket,
                       selection_sync_ticket, frames, frame_ran, dom_selection, is_composing,
                       composition_dirty, image_preview_cache, image_preview_loading,
                       image_preview_failed>>

\* the callback of schedule_selection_restore
SelectionRestored(frame) ==
    /\ frame_ran' = Ran(frame, selection_restore_ticket)
    /\ frames' = Tail(frames)
    /\ dom_selection' =
           IF Stale(selection_restore_ticket, frame.expected_ticket)
           THEN dom_selection
           ELSE Some(frame.selection)
    /\ UNCHANGED <<editor, vault, host, vault_path, save_timeout_id, timeouts, write_calls,
                   selection_restore_ticket, selection_sync_ticket, is_composing,
                   composition_dirty, image_preview_cache, image_preview_loading,
                   image_preview_failed>>

\* the callback of schedule_selection_sync that returns at once: its ticket
\* is stale, or the view has no selection
SyncSkipped(frame) ==
    /\ frame_ran' = Ran(frame, selection_sync_ticket)
    /\ frames' = Tail(frames)
    /\ UNCHANGED <<editor, vault, host, vault_path, save_timeout_id, timeouts, write_calls,
                   selection_restore_ticket, selection_sync_ticket, dom_selection,
                   is_composing, composition_dirty, image_preview_cache,
                   image_preview_loading, image_preview_failed>>

\* the callback during a composition: the selection is stored, nothing is shown
SyncedComposing(frame, dom) ==
    /\ frame_ran' = Ran(frame, selection_sync_ticket)
    /\ frames' = Tail(frames)
    /\ selection' = Selection_clamp(dom, Len(text))
    /\ caret_pos' = Some(Selection_clamp(dom, Len(text)).start)
    /\ UNCHANGED <<text, revision, call, pre, ret, parsed_html, vault, host, vault_path,
                   save_timeout_id, timeouts, write_calls, selection_restore_ticket,
                   selection_sync_ticket, dom_selection, is_composing, composition_dirty,
                   image_preview_cache, image_preview_loading, image_preview_failed>>

\* the callback outside a composition: the selection is stored, the text is
\* formatted and the selection of the view is to be restored
Synced(frame, dom) ==
    /\ selection_restore_ticket < MaxTicket
    /\ frame_ran' = Ran(frame, selection_sync_ticket)
    /\ SelectionSynced(dom.start, dom.end)
    /\ schedule_selection_restore(Selection_clamp(dom, Len(text)), Tail(frames))
    /\ UNCHANGED <<vault_path, save_timeout_id, timeouts, write_calls, selection_sync_ticket,
                   dom_selection, is_composing, composition_dirty, image_preview_cache,
                   image_preview_loading, image_preview_failed>>

SelectionSyncRuns(frame) ==
    IF Stale(selection_sync_ticket, frame.expected_ticket) \/ dom_selection = None
    THEN SyncSkipped(frame)
    ELSE IF is_composing
    THEN SyncedComposing(frame, Unwrap(dom_selection))
    ELSE Synced(frame, Unwrap(dom_selection))

\* the window runs the animation-frame callbacks in the order they were
\* requested in
AnimationFrame ==
    /\ frames # <<>>
    /\ IF Head(frames).kind = "restore"
       THEN SelectionRestored(Head(frames))
       ELSE SelectionSyncRuns(Head(frames))

\* the user moves the selection of the view: schedule_selection_sync
ScheduleSelectionSync ==
    /\ selection_sync_ticket < MaxTicket
    /\ \E pos \in {0, Len(text)} : dom_selection' = Some(Selection_cursor(pos))
    /\ selection_sync_ticket' = selection_sync_ticket + 1
    /\ frames' = Append(frames, Frame("sync", selection_sync_ticket + 1, NoSelection))
    /\ UNCHANGED <<editor, vault, host, vault_path, save_timeout_id, timeouts, write_calls,
                   selection_restore_ticket, frame_ran, is_composing, composition_dirty,
                   image_preview_cache, image_preview_loading, image_preview_failed>>

\* handle_composition_start
HandleCompositionStart ==
    /\ ~is_composing
    /\ is_composing' = TRUE
    /\ composition_dirty' = FALSE
    /\ UNCHANGED <<editor, vault, host, vault_path, save_timeout_id, timeouts, write_calls,
                   selection_restore_ticket, selection_sync_ticket, frames, frame_ran,
                   dom_selection, image_preview_cache, image_preview_loading,
                   image_preview_failed>>

\* the selection handle_composition_end reads from the view
SelectionOfView(dom, t) ==
    Selection_clamp(IF dom = None THEN Selection_cursor(Len(t)) ELSE Unwrap(dom), Len(t))

\* handle_composition_end: what was typed during the composition is applied,
\* if anything was
HandleCompositionEnd ==
    /\ is_composing
    /\ is_composing' = FALSE
    /\ IF ~composition_dirty
       THEN UNCHANGED <<editor, vault, host, vault_path, save_timeout_id, timeouts,
                        write_calls, selection_restore_ticket, selection_sync_ticket, frames,
                        frame_ran, dom_selection, composition_dirty, image_preview_cache,
                        image_preview_loading, image_preview_failed>>
       ELSE /\ selection_restore_ticket < MaxTicket
            /\ apply_editor_update(
                   text, SelectionOfView(dom_selection, text),
                   replace_from_input(Current, text, SelectionOfView(dom_selection, text)))
            /\ UNCHANGED dom_selection

\* a key event: the key and whether Ctrl (or Cmd) and Shift are held
Key(key, ctrl, shift) == [key |-> key, ctrl |-> ctrl, shift |-> shift]

\* the keys pressed: Ctrl+B, Shift+Tab, Enter and a letter
Keys ==
    {Key("b", TRUE, FALSE), Key("Tab", FALSE, TRUE), Key("Enter", FALSE, FALSE),
     Key("a", FALSE, FALSE)}

\* the command handle_editor_keydown issues for a key of Keys, if any
CommandOfKey(e) ==
    CASE e.ctrl /\ e.key = "b" -> Some(Command("Wrap", <<"*", "*">>, <<"*", "*">>, <<>>, "bold"))
      [] e.key = "Tab" /\ e.shift -> Some(Command("Outdent", <<>>, <<>>, <<>>, ""))
      [] e.key = "Tab" /\ ~e.shift -> Some(Command("Indent", <<>>, <<>>, <<>>, ""))
      [] e.key = "Enter" -> Some(Command("ContinueBlock", <<>>, <<>>, <<>>, ""))
      [] ~e.ctrl /\ e.key = "(" -> Some(Command("AutoPair", <<"(">>, <<")">>, <<>>, ""))
      [] OTHER -> None

\* the newline Enter inserts when ContinueBlock changed nothing:
\* apply_transaction(fallback).is_ok()
InsertNewline(snap) ==
    apply_transaction(
        snap,
        Transaction_single(TextChange_new(snap.selection.start, snap.selection.end, <<"\n">>),
                           Some(Selection_cursor(snap.selection.start + 1)),
                           "Command", "insert-newline"))

NewlineInserted(r) ==
    IF r.ret.kind = "Ok" THEN [snap |-> r.snap, ret |-> OkBool(TRUE)] ELSE r

\* what the key makes of the snapshot: the snapshot after the command (for
\* Enter after the newline, if the command changed nothing), and whether
\* apply_editor_update is to be called with it
KeyApplied(e, snap, r) ==
    IF e.key = "Enter" /\ ~(r.ret.kind = "Ok" /\ r.ret.changed)
    THEN NewlineInserted(InsertNewline(r.snap))
    ELSE r

KeyResult(e, snap, overflow_checks) ==
    IF CommandOfKey(e) = None THEN [snap |-> snap, ret |-> OkBool(FALSE)]
    ELSE KeyApplied(e, snap, apply_markdown_command(snap, Unwrap(CommandOfKey(e)), overflow_checks))

\* handle_editor_keydown, up to the key: the snapshot takes the text and the
\* selection of the view
KeydownStored(stored) ==
    /\ text' = stored.snap.text
    /\ selection' = stored.snap.selection
    /\ revision' = stored.snap.revision
    /\ call' = Call("replace_from_input", text, SelectionOfView(dom_selection, text),
                    NoTransaction, NoCommand)
    /\ pre' = Current
    /\ ret' = stored.ret
    /\ UNCHANGED <<caret_pos, parsed_html, vault, host, deferred>>

\* handle_editor_keydown outside a composition: the key's command is applied
\* to the stored snapshot and, if it changed it, the editor is updated
KeyPressed(stored, applied) ==
    IF applied.ret.kind = "Ok" /\ applied.ret.changed
    THEN /\ selection_restore_ticket < MaxTicket
         /\ stored.snap.revision < MaxRevision
         /\ UpdateApplied(stored.snap, applied.snap.text, applied.snap.selection,
                          replace_from_input(stored.snap, applied.snap.text,
                                             applied.snap.selection))
         /\ UNCHANGED <<dom_selection, is_composing>>
    ELSE KeydownStored(stored)

\* handle_editor_keydown that takes keys during a composition
Keydown_while_composing(e, overflow_checks) ==
    KeyPressed(
        replace_from_input(Current, text, SelectionOfView(dom_selection, text)),
        KeyResult(e, replace_from_input(Current, text, SelectionOfView(dom_selection, text)).snap,
                  overflow_checks))

\* handle_editor_keydown: during a composition the key is left to the
\* composition
Keydown(e, overflow_checks) ==
    IF is_composing THEN UNCHANGED vars
    ELSE KeyPressed(
             replace_from_input(Current, text, SelectionOfView(dom_selection, text)),
             KeyResult(
                 e, replace_from_input(Current, text, SelectionOfView(dom_selection, text)).snap,
                 overflow_checks))

HandleEditorKeydown == \E e \in Keys, overflow_checks \in BOOLEAN : Keydown(e, overflow_checks)

\* the effect that tracks the image preview cache: the open note is formatted
\* again, unless a composition is running
Reformatted(cache) ==
    IF cache = NoEntries \/ is_composing \/ text = <<>> \/ current_file = <<>>
          \/ vault_path = <<>>
    THEN UNCHANGED <<parsed_html, selection_restore_ticket, frames>>
    ELSE /\ parsed_html' =
                highlight_markdown_for_editor(
                    text, Some(Selection_clamp(selection, Len(text)).start), vault_path,
                    current_file, cache)
         /\ schedule_selection_restore(Selection_clamp(selection, Len(text)), frames)

\* what the host answers to read_file_base64: the images in the root folder
\* of the vault encode as Q, those of the other folders as R
Encoded(image_path) ==
    IF Len(SplitOn(image_path, "/")) <= Len(SplitOn(VaultPath, "/")) + 1
    THEN <<"Q">>
    ELSE <<"R">>

\* a load ends with the file encoded: the cache takes the preview, and the
\* effect that tracks the cache runs
ImageRead(image_path, encoded) ==
    /\ image_preview_cache' = Insert(image_preview_cache, image_path,
                                     DataUrl(image_path, encoded))
    /\ image_preview_failed' = image_preview_failed \ {image_path}
    /\ image_preview_loading' = image_preview_loading \ {image_path}
    /\ Reformatted(Insert(image_preview_cache, image_path, DataUrl(image_path, encoded)))
    /\ UNCHANGED <<text, selection, revision, call, pre, ret, caret_pos, vault, host,
                   vault_path, save_timeout_id, timeouts, write_calls, selection_sync_ticket,
                   frame_ran, dom_selection, is_composing, composition_dirty>>

\* a load ends without
ImageNotRead(image_path) ==
    /\ image_preview_failed' = image_preview_failed \cup {image_path}
    /\ image_preview_loading' = image_preview_loading \ {image_path}
    /\ UNCHANGED <<editor, vault, host, vault_path, save_timeout_id, timeouts, write_calls,
                   selection_restore_ticket, selection_sync_ticket, frames, frame_ran,
                   dom_selection, is_composing, composition_dirty, image_preview_cache>>

ImageLoaded ==
    /\ is_composing \/ selection_restore_ticket < MaxTicket
    /\ \E image_path \in image_preview_loading :
           \/ ImageRead(image_path, Encoded(image_path))
           \/ ImageNotRead(image_path)

\* the files of a vault that holds the notes of note_map
VaultDisk(v_path, note_map) ==
    [p \in UNION {Ancestors(DiskPath(FilePath(v_path, f))) : f \in DOMAIN note_map} |->
        IF \E f \in DOMAIN note_map : DiskPath(FilePath(v_path, f)) = p
        THEN File(note_map[CHOOSE f \in DOMAIN note_map : DiskPath(FilePath(v_path, f)) = p])
        ELSE Folder]

\* a vault was opened and the note filename selected: refresh_vault_snapshot,
\* then the prefetch effect
VaultOpened(dir_list, note_map, filename) ==
    /\ vault_path = VaultPath
    /\ files = dir_list
    /\ note_texts = note_map
    /\ metadata_cache = build_metadata_cache(note_map, dir_list)
    /\ current_file = filename
    /\ text = EditorSnapshot_new(note_map[filename]).text
    /\ selection = EditorSnapshot_new(note_map[filename]).selection
    /\ revision = EditorSnapshot_new(note_map[filename]).revision
    /\ call = Call("new", note_map[filename], NoSelection, NoTransaction, NoCommand)
    /\ pre = EditorSnapshot_new(note_map[filename])
    /\ ret = Outcome("Unit", FALSE, FALSE, 0, NoInfo)
    /\ caret_pos = None
    /\ parsed_html =
           highlight_markdown_for_editor(note_map[filename], None, VaultPath, filename, NoEntries)
    /\ fs = VaultDisk(VaultPath, note_map)
    /\ import = Import("idle", <<>>, <<>>, <<>>, Report(0, 0, 0, 0, 0), "none", NoFiles, <<>>, 0)
    /\ save_timeout_id = None
    /\ timeouts = {}
    /\ write_calls = <<>>
    /\ selection_restore_ticket = 0
    /\ selection_sync_ticket = 0
    /\ frames = <<>>
    /\ frame_ran = NoFrame
    /\ dom_selection = None
    /\ is_composing = FALSE
    /\ composition_dirty = FALSE
    /\ image_preview_cache = NoEntries
    /\ image_preview_loading =
           pending_paths(VaultPath, filename, note_map[filename], NoEntries, {}, {})
    /\ image_preview_failed = {}

\* a vault of one note was opened, the text of the note being t
NoteOpened(filename, t) == VaultOpened(<<filename>>, (filename :> t), filename)

DeferredInit == NoteOpened(NoteDB, EmbedOfImage)

\* the note is edited and saved, and the selection of the view followed
SaveNext ==
    \/ UpdateContent
    \/ SaveTimeout
    \/ AnimationFrame
    \/ ScheduleSelectionSync

SpecSave == DeferredInit /\ [][SaveNext]_vars

\* the note is edited, with compositions, while its images are loaded
ImagesNext ==
    \/ UpdateContent
    \/ HandleCompositionStart
    \/ HandleCompositionEnd
    \/ ImageLoaded
    \/ AnimationFrame

SpecImages == DeferredInit /\ [][ImagesNext]_vars

\* the note is edited by input events and by keys, with compositions, while
\* its images are loaded
ComposeNext ==
    \/ UpdateContent
    \/ HandleEditorKeydown
    \/ HandleCompositionStart
    \/ HandleCompositionEnd
    \/ ImageLoaded
    \/ AnimationFrame

SpecCompose == DeferredInit /\ [][ComposeNext]_vars

\* the targets of the embeds whose previews are followed: in the note's
\* folder or the root, absolute, leaving the folder, the vault or the root,
\* in a folder, on a drive, and no image
PreviewTargets ==
    {<<"a", ".", "p", "n", "g">>, <<"i", ".", "p", "n", "g">>,
     <<"/", "i", ".", "p", "n", "g">>, <<"/", ".", ".", "/", "i", ".", "p", "n", "g">>,
     <<".", ".", "/", "i", ".", "p", "n", "g">>,
     <<".", ".", "/", ".", ".", "/", "i", ".", "p", "n", "g">>,
     <<"d", "/", "i", ".", "p", "n", "g">>, <<".", "/", "i", ".", "p", "n", "g">>,
     <<"c", ":", "/", "i", ".", "p", "n", "g">>, <<"x", ".", "t", "x", "t">>}

\* the notes whose embeds are followed: in the root and in two folders
NoteZB == <<"z", "/", "B", ".", "m", "d">>

PreviewNotes == {NoteB, NoteDB, NoteZB}

EmbedOf(target) == <<"!", "[", "[">> \o target \o <<"]", "]">>

\* a note that embeds one image is opened, in the root or in a folder
PreviewInit ==
    \E filename \in PreviewNotes, target \in PreviewTargets :
        NoteOpened(filename, EmbedOf(target))

\* the images of the note are loaded, and its selection restored
PreviewNext ==
    \/ ImageLoaded
    \/ AnimationFrame

SpecPreview == PreviewInit /\ [][PreviewNext]_vars

-----------------------------------------------------------------------------
(* The vault import of the host (src-tauri/src/lib.rs).  A path is the     *)
(* sequence of its components, each a text; <<>> is the root.  The file    *)
(* system holds a node for every path that exists: a folder, or a file     *)
(* with its content.  It holds no symbolic link, so canonicalize is the    *)
(* identity on the paths that exist, and no call fails for lack of         *)
(* permission or space: a call fails only where a folder is needed and a   *)
(* file is in the way.                                                     *)

\* the result of a step that may fail: the file system it leaves
Done(disk) == [ok |-> TRUE, disk |-> disk]
Failed(disk) == [ok |-> FALSE, disk |-> disk]

\* if !path.exists() { fs::create_dir_all(path)? }
EnsureDir(r, path) ==
    IF ~r.ok \/ exists(r.disk, path) THEN r
    ELSE IF CanCreateDirAll(r.disk, path) THEN Done(create_dir_all(r.disk, path))
    ELSE Failed(r.disk)

\* if !path.exists() { fs::write(path, content)? }
EnsureFile(r, path, content) ==
    IF ~r.ok \/ exists(r.disk, path) THEN r
    ELSE IF CanWrite(r.disk, path) THEN Done(write(r.disk, path, content))
    ELSE Failed(r.disk)

DotObsidian == <<".", "o", "b", "s", "i", "d", "i", "a", "n">>
DotPlugins == <<".", "p", "l", "u", "g", "i", "n", "s">>
ThemeCss == <<"t", "h", "e", "m", "e", ".", "c", "s", "s">>
DotBedrock == <<".", "b", "e", "d", "r", "o", "c", "k">>
SettingsJson == <<"s", "e", "t", "t", "i", "n", "g", "s", ".", "j", "s", "o", "n">>

ensure_bedrock_layout(disk, vault_dir) ==
    EnsureFile(
        EnsureDir(
            EnsureFile(
                EnsureDir(EnsureDir(Done(disk), vault_dir), vault_dir \o <<DotPlugins>>),
                vault_dir \o <<DotPlugins, ThemeCss>>, "theme"),
            vault_dir \o <<DotBedrock>>),
        vault_dir \o <<SettingsJson>>, "{}")

\* the positions of the dots of a file name
DotsOf(name) == {i \in 1..Len(name) : name[i] = "."}

\* Path::extension and Path::file_stem of a path that has a last component
extension(path) == ExtensionAfter(path[Len(path)], DotsOf(path[Len(path)]))
stem_of(path) == StemBefore(path[Len(path)], DotsOf(path[Len(path)]))

is_markdown_file(path) ==
    extension(path) # None /\ to_ascii_lowercase(Unwrap(extension(path))) = <<"m", "d">>

ImportableImageExtensions ==
    {<<"p", "n", "g">>, <<"j", "p", "g">>, <<"j", "p", "e", "g">>, <<"g", "i", "f">>,
     <<"w", "e", "b", "p">>, <<"b", "m", "p">>, <<"s", "v", "g">>, <<"t", "i", "f">>,
     <<"t", "i", "f", "f">>, <<"i", "c", "o">>, <<"a", "v", "i", "f">>,
     <<"h", "e", "i", "c">>, <<"h", "e", "i", "f">>}

is_importable_image_extension(ext) == ext \in ImportableImageExtensions

is_importable_asset(path) ==
    \/ is_markdown_file(path)
    \/ /\ extension(path) # None
       /\ is_importable_image_extension(to_ascii_lowercase(Unwrap(extension(path))))

\* the entries collect_importable_files_for_import passes by: those whose
\* name starts with a dot
Hidden(name) == name # <<>> /\ name[1] = "."

\* the paths, relative to root, of the importable files under root that no
\* hidden component leads to
collect_importable_files_for_import(disk, root) ==
    {SubSeq(p, Len(root) + 1, Len(p)) :
        p \in {q \in DOMAIN disk :
                  /\ Len(q) > Len(root)
                  /\ PathStartsWith(q, root)
                  /\ \A k \in (Len(root) + 1)..Len(q) : ~Hidden(q[k])
                  /\ is_file(disk, q)
                  /\ is_importable_asset(q)}}

\* Path::to_string_lossy: the components joined by slashes
RECURSIVE Display(_)
Display(path) ==
    IF path = <<>> THEN <<>>
    ELSE IF Len(path) = 1 THEN path[1]
    ELSE path[1] \o <<"/">> \o Display(Tail(path))

\* rel_import_files.sort_by(...): the paths in the order of their strings
RECURSIVE SortedByDisplay(_)
SortedByDisplay(paths) ==
    IF paths = {} THEN <<>>
    ELSE <<CHOOSE p \in paths : \A q \in paths \ {p} : StringLess(Display(p), Display(q))>>
         \o SortedByDisplay(
                paths \ {CHOOSE p \in paths :
                            \A q \in paths \ {p} : StringLess(Display(p), Display(q))})

\* the decimal digits of a number
RECURSIVE DecimalOf(_)
DecimalOf(n) == IF n < 10 THEN <<n>> ELSE DecimalOf(n \div 10) \o <<n % 10>>

\* the number of names unique_import_target_path tries
ImportAttempts == 10000

ImportedNote == <<"I", "m", "p", "o", "r", "t", "e", "d", " ", "n", "o", "t", "e">>

\* format!("{stem} (import {idx}).{ext}")
ImportName(stem, idx, ext) ==
    stem \o <<" ", "(", "i", "m", "p", "o", "r", "t", " ">> \o FormatNumber(DecimalOf(idx))
         \o <<")", ".">> \o ext

ImportStem(rel_path) == IF stem_of(rel_path) = <<>> THEN ImportedNote ELSE stem_of(rel_path)

ImportExt(rel_path) ==
    IF extension(rel_path) = None THEN <<"m", "d">> ELSE Unwrap(extension(rel_path))

Candidate(destination_root, rel_path, idx) ==
    destination_root \o Parent(rel_path)
        \o <<ImportName(ImportStem(rel_path), idx, ImportExt(rel_path))>>

Target(path, renamed) == [ok |-> TRUE, path |-> path, renamed |-> renamed]
NoTarget == [ok |-> FALSE, path |-> <<>>, renamed |-> FALSE]

\* the loop of unique_import_target_path from idx on
RECURSIVE FirstFree_first_name(_, _, _, _)
FirstFree_first_name(disk, destination_root, rel_path, idx) ==
    Target(Candidate(destination_root, rel_path, idx), TRUE)

RECURSIVE FirstFree(_, _, _, _)
FirstFree(disk, destination_root, rel_path, idx) ==
    IF idx > ImportAttempts THEN NoTarget
    ELSE IF ~exists(disk, Candidate(destination_root, rel_path, idx))
    THEN Target(Candidate(destination_root, rel_path, idx), TRUE)
    ELSE FirstFree(disk, destination_root, rel_path, idx + 1)

unique_import_target_path(disk, destination_root, rel_path) ==
    IF ~exists(disk, destination_root \o rel_path)
    THEN Target(destination_root \o rel_path, FALSE)
    ELSE FirstFree(disk, destination_root, rel_path, 1)

\* import_obsidian_vault_notes returns an error
Rejected(source, destination, disk) ==
    /\ fs' = disk
    /\ import' = Import("returned", source, destination, <<>>, Report(0, 0, 0, 0, 0), "Err",
                        fs, <<>>, import.calls + 1)

\* the files are collected and sorted, and the loop is entered
Collected(source, destination, disk, rel_import_files) ==
    /\ fs' = disk
    /\ import' = Import("copying", source, destination, rel_import_files,
                        Report(Cardinality({k \in 1..Len(rel_import_files) :
                                               is_markdown_file(rel_import_files[k])}),
                               0,
                               Cardinality({k \in 1..Len(rel_import_files) :
                                               ~is_markdown_file(rel_import_files[k])}),
                               0, 0),
                        "none", fs, <<>>, import.calls + 1)

Laid(source, destination, r) ==
    IF ~r.ok THEN Rejected(source, destination, r.disk)
    ELSE Collected(source, destination, r.disk,
                   SortedByDisplay(collect_importable_files_for_import(r.disk, source)))

\* the destination exists: it is rejected when it is the source or inside it
WithDestination(source, destination, disk) ==
    IF PathStartsWith(destination, source) THEN Rejected(source, destination, disk)
    ELSE Laid(source, destination, ensure_bedrock_layout(disk, destination))

\* import_obsidian_vault_notes up to its loop
Entered(source_vault, destination_vault) ==
    IF ~is_dir(fs, source_vault) THEN Rejected(source_vault, destination_vault, fs)
    ELSE IF ~is_dir(fs, source_vault \o <<DotObsidian>>)
    THEN Rejected(source_vault, destination_vault, fs)
    ELSE IF exists(fs, destination_vault)
    THEN WithDestination(source_vault, destination_vault, fs)
    ELSE IF ~CanCreateDirAll(fs, destination_vault)
    THEN Rejected(source_vault, destination_vault, fs)
    ELSE WithDestination(source_vault, destination_vault,
                         create_dir_all(fs, destination_vault))

\* what the properties keep of a file that was written
Written(rel, target, conflict, existed) ==
    [rel |-> rel, target |-> target.path, renamed |-> target.renamed,
     conflict |-> conflict, existed |-> existed]

\* the counters after one more file
Counted(report, rel, renamed) ==
    Report(report.scanned_notes,
           report.imported_notes + (IF is_markdown_file(rel) THEN 1 ELSE 0),
           report.scanned_images,
           report.imported_images + (IF is_markdown_file(rel) THEN 0 ELSE 1),
           report.renamed_notes + (IF renamed THEN 1 ELSE 0))

\* the loop returns an error: what was written stays
Aborted ==
    /\ import' = [import EXCEPT !.pc = "returned", !.result = "Err"]
    /\ UNCHANGED fs

\* one round of the loop of import_obsidian_vault_notes, for rel and the
\* target unique_import_target_path gave
CopiedTo(rel, target) ==
    IF ~target.ok THEN Aborted
    ELSE IF ~CanCreateDirAll(fs, Parent(target.path)) THEN Aborted
    ELSE IF ~CanWrite(create_dir_all(fs, Parent(target.path)), target.path)
         \/ ~is_file(fs, import.source \o rel)
    THEN /\ fs' = create_dir_all(fs, Parent(target.path))
         /\ import' = [import EXCEPT !.pc = "returned", !.result = "Err"]
    ELSE /\ fs' = write(create_dir_all(fs, Parent(target.path)), target.path,
                        fs[import.source \o rel].content)
         /\ import' = [import EXCEPT
                !.queue = Tail(import.queue),
                !.report = Counted(import.report, rel, target.renamed),
                !.written = Append(import.written,
                                   Written(rel, target,
                                           exists(fs, import.destination \o rel),
                                           exists(fs, target.path)))]

-----------------------------------------------------------------------------
(* The file system the import is followed on *)

NameO == <<"o">>
NameV == <<"v">>
NameB == <<"b">>
NameU == <<"u">>
NameD == <<"d">>
NameX == <<"x">>
NameAMd == <<"a", ".", "m", "d">>
NameBMd == <<"b", ".", "M", "D">>
NameAImport1Md == <<"a", " ", "(", "i", "m", "p", "o", "r", "t", " ", "1", ")", ".", "m", "d">>
NameIPng == <<"i", ".", "p", "n", "g">>
NameHiddenMd == <<".", "h", ".", "m", "d">>
NameNTxt == <<"n", ".", "t", "x", "t">>

\* the file system with the node of each entry at its path
Tree(entries) ==
    [p \in {e[1] : e \in entries} |-> (CHOOSE e \in entries : e[1] = p)[2]]

\* An Obsidian vault /o (two notes, one of them named as a renamed import,
\* an image in a folder, a hidden note and a text file); a vault /v that
\* holds a note a.md already and, inside it, an Obsidian vault /v/o with a
\* folder o of its own; and a folder /b where a file d stands where the
\* import needs a folder.  /u does not exist.
HostFiles ==
    Tree({<<<<NameO>>, Folder>>,
          <<<<NameO, DotObsidian>>, Folder>>,
          <<<<NameO, NameAMd>>, File("o/a.md")>>,
          <<<<NameO, NameAImport1Md>>, File("o/a (import 1).md")>>,
          <<<<NameO, NameD>>, Folder>>,
          <<<<NameO, NameD, NameIPng>>, File("o/d/i.png")>>,
          <<<<NameO, NameHiddenMd>>, File("o/.h.md")>>,
          <<<<NameO, NameNTxt>>, File("o/n.txt")>>,
          <<<<NameV>>, Folder>>,
          <<<<NameV, NameAMd>>, File("v/a.md")>>,
          <<<<NameV, NameO>>, Folder>>,
          <<<<NameV, NameO, DotObsidian>>, Folder>>,
          <<<<NameV, NameO, NameAMd>>, File("v/o/a.md")>>,
          <<<<NameV, NameO, NameO>>, Folder>>,
          <<<<NameV, NameO, NameO, NameAMd>>, File("v/o/o/a.md")>>,
          <<<<NameV, NameO, NameO, NameBMd>>, File("v/o/o/b.MD")>>,
          <<<<NameB>>, Folder>>,
          <<<<NameB, NameD>>, File("b/d")>>})

\* the vaults the user picks as the source and as the destination
SourceVaults == {<<NameO>>, <<NameV, NameO>>, <<NameV>>, <<NameU>>}
DestinationVaults ==
    {<<NameO>>, <<NameV>>, <<NameB>>, <<NameU>>, <<NameO, NameX>>, <<NameO, NameD>>}

ImportInit ==
    /\ text = EditorSnapshot_new(<<>>).text
    /\ selection = EditorSnapshot_new(<<>>).selection
    /\ revision = EditorSnapshot_new(<<>>).revision
    /\ call = Call("new", <<>>, NoSelection, NoTransaction, NoCommand)
    /\ pre = EditorSnapshot_new(<<>>)
    /\ ret = Outcome("Unit", FALSE, FALSE, 0, NoInfo)
    /\ caret_pos = None
    /\ parsed_html = <<>>
    /\ NoVault
    /\ fs = HostFiles
    /\ import = Import("idle", <<>>, <<>>, <<>>, Report(0, 0, 0, 0, 0), "none", HostFiles, <<>>, 0)
    /\ NoDeferred

\* import_obsidian_vault_notes is called
ImportObsidianVaultNotes ==
    /\ import.pc # "copying"
    /\ import.calls < MaxImports
    /\ \E source_vault \in SourceVaults, destination_vault \in DestinationVaults :
           Entered(source_vault, destination_vault)
    /\ UNCHANGED <<editor, vault, deferred>>

\* the loop copies its next file
CopyNext ==
    /\ import.pc = "copying"
    /\ import.queue # <<>>
    /\ CopiedTo(Head(import.queue),
                unique_import_target_path(fs, import.destination, Head(import.queue)))
    /\ UNCHANGED <<editor, vault, deferred>>

\* the loop is over: the report is returned
ImportReturns ==
    /\ import.pc = "copying"
    /\ import.queue = <<>>
    /\ import' = [import EXCEPT !.pc = "returned", !.result = "Ok"]
    /\ UNCHANGED <<fs, editor, vault, deferred>>

ImportNext ==
    \/ ImportObsidianVaultNotes
    \/ CopyNext
    \/ ImportReturns

SpecImport == ImportInit /\ [][ImportNext]_vars

-----------------------------------------------------------------------------
(* The notes of the open vault on the host.  The notes are selected, edited, *)
(* deleted and renamed while saves are pending.  A deletion and a renaming  *)
(* are followed from the answer of the user to the end of the refresh that  *)
(* follows the call of the host: no timer fires between the two.  No note   *)
(* of these specifications links to another, so rename_note rewrites no     *)
(* link.                                                                    *)

\* collect_markdown_files passes by every entry whose name starts with a dot
DotEntry(path, root) ==
    \E k \in (Len(root) + 1)..Len(path) : path[k] # <<>> /\ path[k][1] = "."

\* the notes under root, relative to it
NotePaths(disk, root) ==
    {SubSeq(p, Len(root) + 1, Len(p)) :
        p \in {q \in DOMAIN disk :
                 /\ PathStartsWith(q, root)
                 /\ Len(q) > Len(root)
                 /\ is_file(disk, q)
                 /\ is_markdown_file(q)
                 /\ ~DotEntry(q, root)}}

\* collect_note_paths, which read_dir returns as the notes
collect_note_paths(disk, v_path) ==
    IF ~exists(disk, DiskPath(v_path)) THEN <<>>
    ELSE [k \in 1..Cardinality(NotePaths(disk, DiskPath(v_path))) |->
            Display(SortedByDisplay(NotePaths(disk, DiskPath(v_path)))[k])]

\* read_vault_notes, as the map refresh_vault_snapshot makes of it
read_vault_notes(disk, v_path) ==
    [f \in Range(collect_note_paths(disk, v_path)) |->
        disk[DiskPath(FilePath(v_path, f))].content]

\* delete_file of the host: fs::remove_file, whose failure is ignored
delete_file(disk, file_path) ==
    IF is_file(disk, DiskPath(file_path))
    THEN [p \in DOMAIN disk \ {DiskPath(file_path)} |-> disk[p]]
    ELSE disk

\* ensure_markdown_extension, and the final name of rename_current_note
ensure_markdown_extension(path) ==
    IF EndsWith(to_ascii_lowercase(normalize_rel_path(path)), <<".", "m", "d">>)
    THEN normalize_rel_path(path)
    ELSE normalize_rel_path(path) \o <<".", "m", "d">>

\* fs::rename of a file: a file at the new path is replaced
rename(disk, old_abs, new_abs) ==
    [p \in (DOMAIN disk \ {old_abs}) \cup {new_abs} |->
        IF p = new_abs THEN disk[old_abs] ELSE disk[p]]

\* rename_note of the host, for notes that no note links to
rename_note(disk, v_path, old_path, new_path) ==
    IF ensure_markdown_extension(old_path) = <<>> \/ ensure_markdown_extension(new_path) = <<>>
          \/ ensure_markdown_extension(old_path) = ensure_markdown_extension(new_path)
          \/ ~exists(disk, DiskPath(FilePath(v_path, ensure_markdown_extension(old_path))))
          \/ ~CanCreateDirAll(
                  disk, Parent(DiskPath(FilePath(v_path, ensure_markdown_extension(new_path)))))
          \/ is_dir(disk, DiskPath(FilePath(v_path, ensure_markdown_extension(new_path))))
    THEN disk
    ELSE rename(
             create_dir_all(
                 disk, Parent(DiskPath(FilePath(v_path, ensure_markdown_extension(new_path))))),
             DiskPath(FilePath(v_path, ensure_markdown_extension(old_path))),
             DiskPath(FilePath(v_path, ensure_markdown_extension(new_path))))

\* refresh_vault_snapshot on the files of the host, then the prefetch effect;
\* the save timer is left alone
Refreshed(disk, preferred_file) ==
    /\ image_preview_cache' = NoEntries
    /\ image_preview_failed' = {}
    /\ files' = collect_note_paths(disk, vault_path)
    /\ note_texts' = read_vault_notes(disk, vault_path)
    /\ metadata_cache' =
           build_metadata_cache(read_vault_notes(disk, vault_path),
                                collect_note_paths(disk, vault_path))
    /\ Opens(NextFile(preferred_file, collect_note_paths(disk, vault_path)),
             read_vault_notes(disk, vault_path))
    /\ image_preview_loading' =
           pending_paths(vault_path, current_file', text', NoEntries, {}, {})
    /\ UNCHANGED <<import, vault_path, save_timeout_id, timeouts, write_calls,
                   selection_restore_ticket, selection_sync_ticket, frames, frame_ran,
                   dom_selection, is_composing, composition_dirty>>

\* delete_note, the user having confirmed
DeleteNote ==
    /\ vault_path # <<>>
    /\ \E file_path \in Listed(files) :
           /\ fs' = delete_file(fs, FilePath(vault_path, file_path))
           /\ Refreshed(delete_file(fs, FilePath(vault_path, file_path)),
                        IF current_file = file_path THEN None ELSE Some(current_file))

\* what the user answers to the prompt of rename_current_note
RenameAnswers == {<<" ", "C">>, <<>>}

\* the name rename_current_note makes of the answer
FinalName(raw) ==
    IF EndsWith(to_ascii_lowercase(normalize_rel_path(Trim(raw))), <<".", "m", "d">>)
    THEN normalize_rel_path(Trim(raw))
    ELSE normalize_rel_path(Trim(raw)) \o <<".", "m", "d">>

\* rename_current_note, the user having answered raw
Renamed(raw) ==
    IF normalize_rel_path(Trim(raw)) = <<>> \/ FinalName(raw) = current_file
    THEN UNCHANGED vars
    ELSE /\ fs' = rename_note(fs, vault_path, current_file, FinalName(raw))
         /\ Refreshed(rename_note(fs, vault_path, current_file, FinalName(raw)),
                      Some(ensure_markdown_extension(FinalName(raw))))

RenameCurrentNote ==
    /\ vault_path # <<>>
    /\ current_file # <<>>
    /\ \E raw \in RenameAnswers : Renamed(raw)

\* the vault of two notes, the first of them open
TwoNotes == (NoteA :> <<"x">>) @@ (NoteB :> <<"y">>)

NotesInit == VaultOpened(<<NoteA, NoteB>>, TwoNotes, NoteA)

\* the open note is edited and saved, and another note is selected
SwitchNext ==
    \/ UpdateContent
    \/ SaveTimeout
    \/ SelectListedFile
    \/ AnimationFrame

SpecSwitch == NotesInit /\ [][SwitchNext]_vars

\* the open note is edited and saved, and notes are deleted and renamed
NotesNext ==
    \/ UpdateContent
    \/ SaveTimeout
    \/ DeleteNote
    \/ RenameCurrentNote

SpecNotes == NotesInit /\ [][NotesNext]_vars

-----------------------------------------------------------------------------
(* Properties.  call, pre and ret hold the last call, the snapshot it was   *)
(* made on and its result; the snapshot variables hold the state after it.  *)

Max(a, b) == IF a >= b THEN a ELSE b

Called(op) == call.op = op
IsError == ret.kind \in {"InvalidRange", "OverlappingChanges"}
Tx == call.transaction
NumChanges == Len(Tx.changes)

\* the changes of a list in another order
Orders(n) == {f \in [1..n -> 1..n] : \A i, j \in 1..n : i # j => f[i] # f[j]}
Reordered(changes, f) == [i \in 1..Len(changes) |-> changes[f[i]]]

\* a change within the bounds of a text of length len
ValidChange(c, len) == c.start <= c.end /\ c.end <= len

\* C1: a transaction rejected with InvalidRange or OverlappingChanges leaves the
\* text, the selection and the revision of the snapshot as they were.
C1_RejectedTransactionChangesNothing ==
    (Called("apply_transaction") /\ IsError) =>
        /\ text = pre.text
        /\ selection = pre.selection
        /\ revision = pre.revision

\* a rejected transaction one of whose changes, applied alone, would have changed
\* the text, and whose selection_after would have moved the selection
C1_Witness ==
    /\ Called("apply_transaction")
    /\ IsError
    /\ NumChanges = 2
    /\ Tx.selection_after # None
    /\ Selection_clamp(Unwrap(Tx.selection_after), Len(pre.text)) # pre.selection
    /\ \E i \in 1..2 :
          /\ ValidChange(Tx.changes[i], Len(pre.text))
          /\ Tx.changes[i].insert # Slice(pre.text, Tx.changes[i].start, Tx.changes[i].end)

\* C2: after every operation the selection satisfies
\* 0 <= start <= end <= length of the text.
C2_SelectionWithinText ==
    /\ 0 <= selection.start
    /\ selection.start <= selection.end
    /\ selection.end <= Len(text)

\* a transaction was applied whose selection_after lies beyond the new text
C2_Witness ==
    /\ Called("apply_transaction")
    /\ ret.kind = "Ok"
    /\ Tx.selection_after # None
    /\ Unwrap(Tx.selection_after).start > Len(text)

\* C3: the revision starts at 0 and each call adds 1 to it when the text after
\* the call differs from the text before, and 0 otherwise.
C3_RevisionCountsTextChanges ==
    /\ Called("new") => revision = 0
    /\ ~Called("new") =>
          revision = pre.revision + (IF text # pre.text THEN 1 ELSE 0)
    /\ Called("set_selection") => text = pre.text

\* a second text change brought the revision from 1 to 2, by a transaction
C3_Witness ==
    /\ Called("apply_transaction")
    /\ ret.kind = "Ok"
    /\ text # pre.text
    /\ pre.revision = 1
    /\ revision = 2

\* the text made of the untouched spans of t and the inserted texts, for the
\* changes taken in the order f
Interleaved(t, changes, f) ==
    LET n == Len(changes)
        c(i) == changes[f[i]]
        piece(i) == Slice(t, IF i = 1 THEN 0 ELSE c(i - 1).end, c(i).start) \o c(i).insert
        RECURSIVE upto(_)
        upto(i) == IF i = 0 THEN <<>> ELSE upto(i - 1) \o piece(i)
    IN  upto(n) \o Slice(t, IF n = 0 THEN 0 ELSE c(n).end, Len(t))

\* f takes the changes in order of start offset, each after the end of the last
InStartOrder(changes, f) ==
    \A i \in 1..(Len(changes) - 1) :
        /\ changes[f[i]].start <= changes[f[i + 1]].start
        /\ changes[f[i]].end <= changes[f[i + 1]].start

\* C4: the text after an accepted transaction is the concatenation, in order of
\* start offset, of the untouched spans of the original text and the inserted
\* texts, every range being taken in the original text.
C4_TextIsInterleaving ==
    (Called("apply_transaction") /\ ret.kind = "Ok") =>
        \E f \in Orders(NumChanges) :
            /\ InStartOrder(Tx.changes, f)
            /\ text = Interleaved(pre.text, Tx.changes, f)

\* an accepted transaction of two changes listed from right to left, one that
\* removes text and one that inserts text
C4_Witness ==
    /\ Called("apply_transaction")
    /\ ret.kind = "Ok"
    /\ NumChanges = 2
    /\ Tx.changes[1].start > Tx.changes[2].end
    /\ Tx.changes[1].insert # <<>>
    /\ Tx.changes[2].start < Tx.changes[2].end
    /\ Tx.changes[2].insert = <<>>

\* what a change adds to the offsets after it
Delta(c) == Len(c.insert) - (c.end - c.start)

RECURSIVE SumDelta(_, _)
SumDelta(changes, S) ==
    IF S = {} THEN 0
    ELSE LET i == CHOOSE x \in S : TRUE
         IN  Delta(changes[i]) + SumDelta(changes, S \ {i})

\* q is where the offset p of the original text goes: past the inserted text of
\* a change whose range [start, end] holds p, else p shifted by the changes
\* that end before it (sorted: the changes in order of start offset)
RemapsTo(p, q, sorted) ==
    LET n == Len(sorted)
        holding == {i \in 1..n : sorted[i].start <= p /\ p <= sorted[i].end}
    IN  IF holding # {}
        THEN \E i \in holding :
                q = sorted[i].start + SumDelta(sorted, 1..(i - 1)) + Len(sorted[i].insert)
        ELSE q = p + SumDelta(sorted, {i \in 1..n : sorted[i].end < p})

\* C5: without selection_after each endpoint of the prior selection is remapped
\* through every change at the change's offsets in the original text; with
\* selection_after the selection is that value clamped to the new text.
C5_SelectionRemappedInOriginalOffsets ==
    (Called("apply_transaction") /\ ret.kind = "Ok") =>
        IF Tx.selection_after = None
        THEN /\ RemapsTo(pre.selection.start, selection.start, SortByKey(Tx.changes))
             /\ RemapsTo(pre.selection.end, selection.end, SortByKey(Tx.changes))
        ELSE LET a == Min(Unwrap(Tx.selection_after).start, Len(text))
                 b == Min(Unwrap(Tx.selection_after).end, Len(text))
             IN  selection = [start |-> Min(a, b), end |-> Max(a, b)]

\* C6: InvalidRange exactly when some change has start > end or end > length,
\* with that change's bounds and the length; else OverlappingChanges exactly
\* when, in (start, end) order, a change starts before the end of the one
\* before it; else success.
C6_ErrorsClassified ==
    Called("apply_transaction") =>
        LET len == Len(pre.text)
            invalid == {i \in 1..NumChanges : ~ValidChange(Tx.changes[i], len)}
            overlap ==
                \E f \in Orders(NumChanges) :
                    /\ \A i \in 1..(NumChanges - 1) :
                          ~KeyLess(Tx.changes[f[i + 1]], Tx.changes[f[i]])
                    /\ \E i \in 1..(NumChanges - 1) :
                          Tx.changes[f[i + 1]].start < Tx.changes[f[i]].end
        IN  /\ ret.kind = "InvalidRange" <=> invalid # {}
            /\ ret.kind = "InvalidRange" =>
                  \E i \in invalid :
                      ret.info = <<Tx.changes[i].start, Tx.changes[i].end, len>>
            /\ ret.kind = "OverlappingChanges" <=> (invalid = {} /\ overlap)
            /\ ret.kind = "Ok" <=> (invalid = {} /\ ~overlap)

\* an accepted transaction of two insertions at one offset
C6_Witness ==
    /\ Called("apply_transaction")
    /\ ret.kind = "Ok"
    /\ NumChanges = 2
    /\ Tx.changes[1].start = Tx.changes[1].end
    /\ Tx.changes[2].start = Tx.changes[2].end
    /\ Tx.changes[1].start = Tx.changes[2].start
    /\ Tx.changes[1].insert # <<>>
    /\ Tx.changes[2].insert # <<>>

\* the outcome of the transaction is the same in the order f of its changes
SameOutcomeInOrder(f) ==
    LET other == apply_transaction(pre, [Tx EXCEPT !.changes = Reordered(Tx.changes, f)])
    IN  /\ other.snap = Current
        /\ other.ret.kind = ret.kind

\* C7 as stated: the outcome of apply_transaction is the same for every
\* permutation of the change list.
C7_OrderOfChangesIrrelevant ==
    Called("apply_transaction") => \A f \in Orders(NumChanges) : SameOutcomeInOrder(f)

\* two changes that insert different texts at the same offset
InsertionsAtOneOffset ==
    \E i, j \in 1..NumChanges :
        /\ Tx.changes[i].start = Tx.changes[i].end
        /\ Tx.changes[j].start = Tx.changes[j].end
        /\ Tx.changes[i].start = Tx.changes[j].start
        /\ Tx.changes[i].insert # Tx.changes[j].insert

\* C7 amended: the outcome is the same for every permutation of the change
\* list, unless two changes insert different texts at the same offset.
C7_OrderIrrelevantButForInsertionsAtOneOffset ==
    (Called("apply_transaction") /\ ~InsertionsAtOneOffset) =>
        \A f \in Orders(NumChanges) : SameOutcomeInOrder(f)

\* an accepted transaction of two changes listed from right to left that
\* changed the text
C7_Witness ==
    /\ Called("apply_transaction")
    /\ ret.kind = "Ok"
    /\ NumChanges = 2
    /\ KeyLess(Tx.changes[2], Tx.changes[1])
    /\ ~InsertionsAtOneOffset
    /\ text # pre.text

\* C8: replace_from_input leaves the given text and the given selection clamped
\* to its length, and returns Ok with text_changed, selection_changed and the
\* revision of the snapshot.
C8_ReplaceFromInput ==
    Called("replace_from_input") =>
        LET a == Min(call.selection.start, Len(call.text))
            b == Min(call.selection.end, Len(call.text))
        IN  /\ text = call.text
            /\ selection = [start |-> Min(a, b), end |-> Max(a, b)]
            /\ ret.kind = "Ok"
            /\ ret.text_changed = (call.text # pre.text)
            /\ ret.selection_changed = (selection # pre.selection)
            /\ ret.revision = revision

\* a shorter text replaced a longer one, with a selection given beyond its end
\* while the prior selection was a range
C8_Witness ==
    /\ Called("replace_from_input")
    /\ Len(text) < Len(pre.text)
    /\ call.selection.end > Len(text)
    /\ pre.selection.start < pre.selection.end
    /\ ret.text_changed
    /\ ret.selection_changed

C10_WrapAndAutoPair ==
    (Called("apply_markdown_command") /\ call.command.kind \in {"Wrap", "AutoPair"}) =>
        LET open == call.command.open
            close == call.command.close
            s == pre.selection.start
            e == pre.selection.end
            after_open == s + Len(open)
            after_close == s + Len(open) + (e - s) + Len(close)
        IN  /\ text = Slice(pre.text, 0, s) \o open \o Slice(pre.text, s, e) \o close
                      \o Slice(pre.text, e, Len(pre.text))
            /\ selection.start = selection.end
            /\ selection.start = IF s = e THEN after_open ELSE after_close

\* AutoPair wrapped a range
C10_Witness ==
    /\ Called("apply_markdown_command")
    /\ call.command.kind = "AutoPair"
    /\ pre.selection.start < pre.selection.end
    /\ call.command.open # <<>>
    /\ call.command.close # <<>>
    /\ ret.changed

-----------------------------------------------------------------------------
(* Properties of the commands *)

CmdIs(kind) == Called("apply_markdown_command") /\ call.command.kind = kind

\* the line of t that holds offset p: the longest span around p without a newline
LineStartOf(t, p) ==
    CHOOSE a \in 0..p : /\ a = 0 \/ t[a] = "\n"
                        /\ \A i \in (a + 1)..p : t[i] # "\n"
LineEndOf(t, p) ==
    CHOOSE b \in p..Len(t) : /\ b = Len(t) \/ t[b + 1] = "\n"
                             /\ \A i \in (p + 1)..b : t[i] # "\n"
LineOf(t, p) == Slice(t, LineStartOf(t, p), LineEndOf(t, p))

\* after is before with ins inserted at offset at
Inserted(before, after, at, ins) ==
    after = Slice(before, 0, at) \o ins \o Slice(before, at, Len(before))

\* the line the last call found the start of the selection on
PreLine == LineOf(pre.text, pre.selection.start)

MatchesSomePattern(line) ==
    re_task(line).matched \/ re_ol(line).matched \/ re_ul(line).matched \/ re_quote(line).matched

\* a bare newline for an empty body, else a newline and the continuation
Continuation(body, continuation) ==
    IF body = <<>> THEN <<"\n">> ELSE <<"\n">> \o continuation

\* the decimal numeral of the number written as digits, plus 1
NextNumeral(digits) == FormatNumber(AddOne(StripZeros(DigitValues(digits))))

\* what the continuation of a line inserts, the patterns tried in the order
\* task item, ordered item, unordered item, blockquote
ContinuationOf(line) ==
    IF re_task(line).matched
    THEN Continuation(re_task(line).body, re_task(line).prefix \o <<"[", " ", "]", " ">>)
    ELSE IF re_ol(line).matched
    THEN Continuation(re_ol(line).body,
                      re_ol(line).prefix \o NextNumeral(re_ol(line).number) \o <<".", " ">>)
    ELSE IF re_ul(line).matched
    THEN Continuation(re_ul(line).body, re_ul(line).prefix)
    ELSE Continuation(re_quote(line).body, re_quote(line).prefix)

\* C11: ContinueBlock with a cursor on a task, ordered, unordered or quote
\* line inserts at the cursor a newline and the line's continuation (for an
\* ordered item its indentation and its number increased by 1), or a bare
\* newline when the body is empty, and leaves the cursor right after the
\* inserted text.
C11_ContinueBlockInserts ==
    (/\ CmdIs("ContinueBlock")
     /\ Selection_is_cursor(pre.selection)
     /\ MatchesSomePattern(PreLine)) =>
        /\ ret.kind = "Ok"
        /\ Inserted(pre.text, text, pre.selection.start, ContinuationOf(PreLine))
        /\ selection = Selection_cursor(pre.selection.start + Len(ContinuationOf(PreLine)))

\* the same, for ordered items whose number is below u64::MAX
C11_HoldsBelowU64Max ==
    (re_ol(PreLine).matched =>
        /\ FitsU64(StripZeros(DigitValues(re_ol(PreLine).number)))
        /\ StripZeros(DigitValues(re_ol(PreLine).number)) # U64Max)
    => C11_ContinueBlockInserts

\* the transaction the command builder made for the command called
Built == build_markdown_transaction(pre, call.command)

\* C39: apply_markdown_command never returns an error: for every snapshot and
\* every command the result is Ok
C39_CommandAlwaysOk == Called("apply_markdown_command") => ret.kind = "Ok"

\* no error is returned, and the changes the builder makes lie within the
\* text and do not overlap
C39_NoErrorReturned ==
    Called("apply_markdown_command") =>
        /\ ~IsError
        /\ Built # None => normalize_changes(Unwrap(Built).changes, Len(pre.text)).kind = "Ok"

\* C12: ContinueBlock on a range selection, or with the cursor on a line that
\* matches none of the four patterns, returns Ok(false) and leaves text,
\* selection and revision as they were.
C12_ContinueBlockNotApplicable ==
    (/\ CmdIs("ContinueBlock")
     /\ ~Selection_is_cursor(pre.selection) \/ ~MatchesSomePattern(PreLine)) =>
        /\ ret = OkBool(FALSE)
        /\ Current = pre

\* ContinueBlock was refused on a range selection that starts on a list line
C12_Witness ==
    /\ CmdIs("ContinueBlock")
    /\ pre.selection.start < pre.selection.end
    /\ MatchesSomePattern(PreLine)
    /\ ret = OkBool(FALSE)

\* the offsets at which the lines touched by the selection start
TouchedLineStarts(t, sel) ==
    {p \in LineStartOf(t, sel.start)..LineEndOf(t, sel.end) : p = 0 \/ t[p] = "\n"}

NoTouchedLineIndented(t, sel) ==
    \A p \in TouchedLineStarts(t, sel) : p < Len(t) => t[p + 1] \notin {"\t", " "}

\* C13: Outdent, when no line touched by the selection starts with a tab or a
\* space, returns Ok(false) and leaves text, selection and revision as they
\* were, for a cursor and for a range selection alike.
C13_OutdentWithoutIndentation ==
    (CmdIs("Outdent") /\ NoTouchedLineIndented(pre.text, pre.selection)) =>
        /\ ret = OkBool(FALSE)
        /\ Current = pre

\* the same, for a cursor selection only
C13_HoldsForCursor ==
    Selection_is_cursor(pre.selection) => C13_OutdentWithoutIndentation

Outdent == Command("Outdent", <<>>, <<>>, <<>>, "")

\* C14: after Indent on a range selection, Outdent applied to the snapshot
\* Indent left (its text and its selection) restores the text Indent found.
C14_IndentOutdentRoundTrip ==
    (CmdIs("Indent") /\ ~Selection_is_cursor(pre.selection)) =>
        \A overflow_checks \in BOOLEAN :
            apply_markdown_command(Current, Outdent, overflow_checks).snap.text = pre.text

\* Indent acted on a range over two lines, one of them indented already
C14_Witness ==
    /\ CmdIs("Indent")
    /\ pre.selection.start < pre.selection.end
    /\ \E i \in (pre.selection.start + 1)..pre.selection.end : pre.text[i] = "\n"
    /\ \E p \in TouchedLineStarts(pre.text, pre.selection) :
            p < Len(pre.text) /\ pre.text[p + 1] = " "
    /\ text # pre.text
    /\ apply_markdown_command(Current, Outdent, TRUE).snap.text = pre.text

\* the number of spaces a line starts with
LeadingSpaces(line) ==
    CHOOSE n \in 0..Len(line) : /\ \A i \in 1..n : line[i] = " "
                                /\ n = Len(line) \/ line[n + 1] # " "

\* what the claim has Outdent remove from the start of a line
Removed(line) ==
    IF Len(line) >= 1 /\ line[1] = "\t" THEN 1 ELSE Min(LeadingSpaces(line), 4)

\* C15: Outdent with a cursor removes from the start of the cursor's line one
\* tab if the line starts with a tab, else its leading spaces up to 4,
\* changes nothing else, and moves the cursor left by the number of
\* characters removed, but not to the left of the line's start.
C15_OutdentCursor ==
    (CmdIs("Outdent") /\ Selection_is_cursor(pre.selection)) =>
        LET ls == LineStartOf(pre.text, pre.selection.start)
            le == LineEndOf(pre.text, pre.selection.start)
        IN  /\ ret.kind = "Ok"
            /\ text = Slice(pre.text, 0, ls)
                      \o Slice(PreLine, Removed(PreLine), Len(PreLine))
                      \o Slice(pre.text, le, Len(pre.text))
            /\ selection =
                 Selection_cursor(Max(ls, pre.selection.start - Removed(PreLine)))

\* Outdent removed indentation from a line that is not the first, with the
\* cursor inside the indentation: the cursor stops at the line's start
C15_Witness ==
    /\ CmdIs("Outdent")
    /\ Selection_is_cursor(pre.selection)
    /\ LineStartOf(pre.text, pre.selection.start) > 0
    /\ Removed(PreLine) > 0
    /\ pre.selection.start - Removed(PreLine) < LineStartOf(pre.text, pre.selection.start)
    /\ selection.start = LineStartOf(pre.text, pre.selection.start)
    /\ text # pre.text

\* s with ins inserted after each of its newlines
RECURSIVE AfterEachNewline(_, _)
AfterEachNewline(s, ins) ==
    IF s = <<>> THEN <<>>
    ELSE IF Head(s) = "\n" THEN <<"\n">> \o ins \o AfterEachNewline(Tail(s), ins)
    ELSE <<Head(s)>> \o AfterEachNewline(Tail(s), ins)

\* a block of lines with 4 spaces put before every line
IndentedBlock(block) == <<" ", " ", " ", " ">> \o AfterEachNewline(block, <<" ", " ", " ", " ">>)

\* C16: Indent with a cursor inserts 4 spaces at the caret and moves the
\* cursor 4 to the right; with a range it puts 4 spaces before every line
\* from the start of the line of selection.start to the end of the line of
\* selection.end, changes nothing outside that block, and leaves the
\* selection on exactly the transformed block.
C16_Indent ==
    CmdIs("Indent") =>
        LET s == pre.selection.start
            bs == LineStartOf(pre.text, pre.selection.start)
            be == LineEndOf(pre.text, pre.selection.end)
            block == IndentedBlock(Slice(pre.text, bs, be))
        IN  /\ ret.kind = "Ok"
            /\ Selection_is_cursor(pre.selection) =>
                 /\ Inserted(pre.text, text, s, <<" ", " ", " ", " ">>)
                 /\ selection = Selection_cursor(s + 4)
            /\ ~Selection_is_cursor(pre.selection) =>
                 /\ text = Slice(pre.text, 0, bs) \o block \o Slice(pre.text, be, Len(pre.text))
                 /\ selection = [start |-> bs, end |-> bs + Len(block)]

\* Indent acted on a range that touches two lines and covers neither whole,
\* in a text with a further line
C16_Witness ==
    /\ CmdIs("Indent")
    /\ pre.selection.start < pre.selection.end
    /\ LineStartOf(pre.text, pre.selection.start) < pre.selection.start
    /\ LineEndOf(pre.text, pre.selection.start) < pre.selection.end
    /\ Len(text) = Len(pre.text) + 8
    /\ selection.start < pre.selection.start

\* C17: PrefixLine inserts the prefix at the start of the line that holds
\* selection.start, changes no other text, and shifts both ends of the
\* selection right by the length of the prefix, so that the selection covers
\* the characters it covered before.
C17_PrefixLine ==
    CmdIs("PrefixLine") =>
        LET prefix == call.command.prefix
        IN  /\ ret.kind = "Ok"
            /\ Inserted(pre.text, text, LineStartOf(pre.text, pre.selection.start), prefix)
            /\ selection = [start |-> pre.selection.start + Len(prefix),
                            end |-> pre.selection.end + Len(prefix)]
            /\ Slice(text, selection.start, selection.end)
                 = Slice(pre.text, pre.selection.start, pre.selection.end)

\* PrefixLine acted on a range selection that starts inside the second line
C17_Witness ==
    /\ CmdIs("PrefixLine")
    /\ call.command.prefix # <<>>
    /\ pre.selection.start < pre.selection.end
    /\ LineStartOf(pre.text, pre.selection.start) > 0
    /\ LineStartOf(pre.text, pre.selection.start) < pre.selection.start
    /\ text # pre.text

-----------------------------------------------------------------------------
(* Properties of the formatter *)

InlineClasses ==
    {"hl-code", "hl-comment", "hl-embed", "hl-link", "hl-bold hl-italic", "hl-bold",
     "hl-strike", "hl-mark", "hl-italic", "hl-math-inline", "hl-footnote", "hl-tag",
     "hl-block-id"}
LineClasses ==
    {"hl-codeblock", "hl-codeblock hl-code-fence", "hl-math-block", "hl-frontmatter",
     "hl-comment", "hl-callout", "hl-h1", "hl-h2", "hl-h3", "hl-h4", "hl-h5", "hl-h6",
     "hl-hr", "hl-footnote-def", "hl-quote", "hl-task", "hl-list", "hl-table"}
OpenTags ==
    {TokenVisible, TokenHidden} \cup {SpanOpen(c) : c \in InlineClasses \cup LineClasses}
PreviewOpenTag == "<span class=\"md-inline-image-wrap\" contenteditable=\"false\">"
ImageCloseTag == "\"/>"

\* for each character of the text, in order, the innermost element the
\* formatted text shows it in ("" for none); image previews are skipped
RECURSIVE ShownIn(_, _, _)
ShownIn(html, i, stack) ==
    IF i > Len(html) THEN <<>>
    ELSE IF html[i] = PreviewOpenTag
    THEN ShownIn(html, SetMin({j \in i..Len(html) : html[j] = ImageCloseTag}) + 2, stack)
    ELSE IF html[i] \in OpenTags THEN ShownIn(html, i + 1, <<html[i]>> \o stack)
    ELSE IF html[i] = SpanClose THEN ShownIn(html, i + 1, Tail(stack))
    ELSE <<IF stack = <<>> THEN "" ELSE Head(stack)>> \o ShownIn(html, i + 1, stack)

Shown == ShownIn(parsed_html, 1, <<>>)

\* a span of a line, at the offsets of the document
Shifted(m, offset) ==
    [m EXCEPT !.start = @ + offset, !.end = @ + offset,
              !.inner_start = @ + offset, !.inner_end = @ + offset]

\* the lines the block pass hands to the inline pass, each with its offset
RECURSIVE InlineLinesFrom(_, _)
InlineLinesFrom(st, lines) ==
    IF lines = <<>> THEN <<>>
    ELSE (IF BlockStep(st, Head(lines), None, None).inline
          THEN <<[offset |-> st.offset, line |-> Head(lines)]>> ELSE <<>>)
         \o InlineLinesFrom(BlockStep(st, Head(lines), None, None).st, Tail(lines))

InlineLines == InlineLinesFrom(BlockStart, SplitInclusive(text))

\* the spans the inline pass accepts on a line, at the offsets of the document
SpansOfLine(l) ==
    {Shifted(AcceptedSpans(l.line, None)[k], l.offset) : k \in 1..Len(AcceptedSpans(l.line, None))}

\* the accepted inline spans of the document
DocSpans == UNION {SpansOfLine(InlineLines[l]) : l \in 1..Len(InlineLines)}

CaretWithin(m) ==
    caret_pos # None /\ m.start <= Unwrap(caret_pos) /\ Unwrap(caret_pos) <= m.end

\* the two tokens of span m are shown in element token, its inner text in
\* the element of the span's class
ShownAs(m, token) ==
    /\ \A j \in m.start..(m.start + m.open_len - 1) : Shown[j + 1] = token
    /\ \A j \in (m.end - m.close_len)..(m.end - 1) : Shown[j + 1] = token
    /\ \A j \in m.inner_start..(m.inner_end - 1) : Shown[j + 1] = SpanOpen(m.class)

\* C18: every accepted inline span whose format hides its tokens has both
\* tokens shown as visible tokens when the caret lies within the span
\* (start <= caret <= end, on any line, the last one included) and as hidden
\* tokens when there is no caret or the caret is outside the span; its inner
\* text is shown under the span's class in both cases.
C18_TokensFollowCaret ==
    /\ Len(Shown) = Len(text)
    /\ \A m \in DocSpans :
          m.hide_tokens =>
              ShownAs(m, IF CaretWithin(m) THEN TokenVisible ELSE TokenHidden)

\* the same, but for a caret at the end of a document that does not end with
\* a newline
C18_HoldsBeforeDocumentEnd ==
    (caret_pos # None /\ Unwrap(caret_pos) = Len(text) /\ text # <<>> /\ text[Len(text)] # "\n")
    \/ C18_TokensFollowCaret

\* the delimiters of collect_delimited_matches
Delimiters ==
    {<<"%", "%">>, <<"*", "*", "*">>, <<"_", "_", "_">>, <<"*", "*">>, <<"_", "_">>,
     <<"~", "~">>, <<"=", "=">>, <<"*">>, <<"_">>}

\* the offsets, in the document, of the characters of the unmatched opener
\* of delimiter d on line l: the last token of an odd number of tokens
OpenerOffsets(l, d, positions) ==
    IF Len(positions) % 2 = 0 THEN {}
    ELSE {l.offset + positions[Len(positions)] + j : j \in 0..(Len(d) - 1)}

UnmatchedOpenerOffsets ==
    UNION {OpenerOffsets(InlineLines[l], d, find_delimiter_positions(InlineLines[l].line, d)) :
            l \in 1..Len(InlineLines), d \in Delimiters}

\* C19: no character of an opening delimiter without a closing delimiter
\* later on its line is shown as a hidden token, whatever else the line holds.
C19_UnmatchedOpenerVisible ==
    /\ Len(Shown) = Len(text)
    /\ \A j \in UnmatchedOpenerOffsets : Shown[j + 1] # TokenHidden

\* the same, for lines that hold nothing but delimiters of one kind and text
C19_HoldsWithoutOtherConstructs ==
    (\A i \in 1..Len(text) : text[i] \in {"*", "a", "\n"}) => C19_UnmatchedOpenerVisible

\* two spans overlap in byte range
RangesOverlap(a, b) == a.start < b.end /\ b.start < a.end

\* the place of a candidate's class in the order of precedence: inline code,
\* comments, embeds and links, emphasis by the width of its delimiter, math,
\* footnotes, tags, block ids
Precedence(class) ==
    CASE class = "hl-code" -> 1
      [] class = "hl-comment" -> 2
      [] class \in {"hl-embed", "hl-link"} -> 3
      [] class = "hl-bold hl-italic" -> 4
      [] class \in {"hl-bold", "hl-strike", "hl-mark"} -> 5
      [] class = "hl-italic" -> 6
      [] class = "hl-math-inline" -> 7
      [] class = "hl-footnote" -> 8
      [] class = "hl-tag" -> 9
      [] class = "hl-block-id" -> 10

\* candidates are offered in the order of precedence; accepted holds no two
\* spans that overlap, and a candidate is in it exactly if it overlaps none of
\* the candidates offered before it that are in it; rendered is accepted
NonOverlapping(candidates, accepted, rendered) ==
    /\ \A k \in 1..(Len(candidates) - 1) :
           Precedence(candidates[k].class) <= Precedence(candidates[k + 1].class)
    /\ \A i \in 1..Len(accepted), j \in 1..Len(accepted) :
           i # j => ~RangesOverlap(accepted[i], accepted[j])
    /\ \A k \in 1..Len(candidates) :
           candidates[k] \in Range(accepted)
               <=> \A j \in 1..(k - 1) :
                       candidates[j] \in Range(accepted)
                           => ~RangesOverlap(candidates[j], candidates[k])
    /\ Range(rendered) = Range(accepted)
    /\ Len(rendered) = Len(accepted)

\* C32: on every line that goes through the inline pass the accepted spans do
\* not overlap pairwise, and a candidate is accepted exactly if it overlaps
\* no span accepted before it, the candidates being offered in the order of
\* precedence; the spans rendered are the accepted ones.
C32_SpansDoNotOverlap ==
    \A l \in 1..Len(InlineLines) :
        NonOverlapping(Candidates(InlineLines[l].line, None),
                       PushAll(<<>>, Candidates(InlineLines[l].line, None)),
                       AcceptedSpans(InlineLines[l].line, None))

\* a line has a candidate that was accepted and one that was not, and the
\* caret is in the text
C32_Witness ==
    /\ caret_pos # None
    /\ \E l \in 1..Len(InlineLines) :
           /\ PushAll(<<>>, Candidates(InlineLines[l].line, None)) # <<>>
           /\ Len(PushAll(<<>>, Candidates(InlineLines[l].line, None)))
                  < Len(Candidates(InlineLines[l].line, None))

\* a line has a candidate that starts before an accepted span of higher
\* precedence and ends in it
C32_WitnessOfLeftOverlap ==
    \E l \in 1..Len(InlineLines) :
        \E k \in 1..Len(Candidates(InlineLines[l].line, None)) :
            \E j \in 1..(k - 1) :
                /\ Candidates(InlineLines[l].line, None)[j]
                       \in Range(PushAll(<<>>, Candidates(InlineLines[l].line, None)))
                /\ Candidates(InlineLines[l].line, None)[k].start
                       < Candidates(InlineLines[l].line, None)[j].start
                /\ RangesOverlap(Candidates(InlineLines[l].line, None)[j],
                                 Candidates(InlineLines[l].line, None)[k])

\* one chunk of the formatted text as the text had it
Unescaped(chunk) ==
    CASE chunk = "&amp;" -> "&"
      [] chunk = "&lt;" -> "<"
      [] chunk = "&gt;" -> ">"
      [] OTHER -> chunk

\* the formatted text without its tags and image previews, un-escaped
RECURSIVE Stripped(_, _)
Stripped(html, i) ==
    IF i > Len(html) THEN <<>>
    ELSE IF html[i] = PreviewOpenTag
    THEN Stripped(html, SetMin({j \in i..Len(html) : html[j] = ImageCloseTag}) + 2)
    ELSE IF html[i] \in OpenTags \cup {SpanClose} THEN Stripped(html, i + 1)
    ELSE <<Unescaped(html[i])>> \o Stripped(html, i + 1)

\* C37: the formatted text without its tags and image previews, un-escaped,
\* is the text.
C37_TextPreserved == Stripped(parsed_html, 1) = text

\* a text with hidden tokens is shown, and the caret is in it
C37_Witness ==
    /\ caret_pos # None
    /\ TokenHidden \in Range(parsed_html)
    /\ Stripped(parsed_html, 1) = text

\* a text with escaped characters is shown
C37_WitnessOfEscapes ==
    /\ {"&amp;", "&lt;"} \subseteq Range(parsed_html)
    /\ Stripped(parsed_html, 1) = text

\* a text with an image preview is shown
C37_WitnessOfPreview ==
    /\ PreviewOpenTag \in Range(parsed_html)
    /\ Stripped(parsed_html, 1) = text

\* the same where the text typed in a composition is not formatted yet: what
\* is shown outside a composition is the text
C37_HoldsOutsideComposition == is_composing \/ C37_TextPreserved

\* a text with the preview of a local image is shown
C37_WitnessOfLocalPreview ==
    /\ image_preview_cache # NoEntries
    /\ PreviewOpenTag \in Range(parsed_html)
    /\ Stripped(parsed_html, 1) = text

-----------------------------------------------------------------------------
(* Properties of the indexer *)

\* resolved_links[p] has an entry for t
ResolvedHas(cache, p, t) ==
    p \in DOMAIN cache.resolved_links /\ t \in DOMAIN cache.resolved_links[p]

\* backlinks[t] contains p
BacklinksHave(cache, t, p) ==
    t \in DOMAIN cache.backlinks
    /\ \E i \in 1..Len(cache.backlinks[t]) : cache.backlinks[t][i] = p

\* every path that is a key or an element of the link maps, and every note
LinkedPaths(cache) ==
    IndexPaths
    \cup DOMAIN cache.resolved_links
    \cup UNION {DOMAIN cache.resolved_links[p] : p \in DOMAIN cache.resolved_links}
    \cup DOMAIN cache.backlinks
    \cup UNION {{cache.backlinks[t][i] : i \in 1..Len(cache.backlinks[t])} :
                  t \in DOMAIN cache.backlinks}

\* the list is strictly increasing in the order of String
SortedWithoutDuplicates(list) ==
    \A i \in 1..Len(list) : \A j \in (i + 1)..Len(list) : StringLess(list[i], list[j])

\* C20: in every metadata cache the indexer builds, resolved_links[p] has an
\* entry for t if and only if backlinks[t] contains p, and every backlinks
\* list is sorted and has no duplicates.
C20_BacklinksSymmetric ==
    /\ \A p \in LinkedPaths(metadata_cache) : \A t \in LinkedPaths(metadata_cache) :
            ResolvedHas(metadata_cache, p, t) <=> BacklinksHave(metadata_cache, t, p)
    /\ \A t \in DOMAIN metadata_cache.backlinks :
            SortedWithoutDuplicates(metadata_cache.backlinks[t])

\* two notes link to A.md and the one listed first sorts last; one of them
\* is A.md itself
C20_Witness ==
    /\ files = <<NoteB, NoteA>>
    /\ ResolvedHas(metadata_cache, NoteB, NoteA)
    /\ ResolvedHas(metadata_cache, NoteA, NoteA)
    /\ metadata_cache.backlinks[NoteA] = <<NoteA, NoteB>>

\* a note with two links that resolve to one target is listed once
C20_WitnessOfDuplicates ==
    /\ ResolvedHas(metadata_cache, NoteA, NoteB)
    /\ metadata_cache.resolved_links[NoteA][NoteB] = 2
    /\ metadata_cache.backlinks[NoteB] = <<NoteA>>

\* the notes of the vault
Notes == {files[i] : i \in 1..Len(files)}

\* the links extracted from note p, as the cache holds them
LinksOf(p) ==
    {metadata_cache.file_cache[p].links[i] :
        i \in 1..Len(metadata_cache.file_cache[p].links)}

\* the path with ".md" appended unless the link ends with it, in any casing
WithMd(path, link) ==
    IF EndsWith(to_ascii_lowercase(link), <<".", "m", "d">>) THEN path
    ELSE path \o <<".", "m", "d">>

\* the notes whose path is the given one but for the casing
NamedBy(path) == {f \in Notes : to_ascii_lowercase(f) = to_ascii_lowercase(path)}

\* the folder of a note: its path up to the last "/", empty at the root
FolderOf(p) ==
    IF \E i \in 1..Len(p) : p[i] = "/"
    THEN SubSeq(p, 1, (CHOOSE i \in 1..Len(p) :
                          p[i] = "/" /\ \A j \in (i + 1)..Len(p) : p[j] # "/") - 1)
    ELSE <<>>

\* (a) the notes the link names literally
Literally(link) == NamedBy(WithMd(link, link))

\* (b) the notes the link names from the folder of the source note p
FromFolder(link, p) ==
    IF (\E i \in 1..Len(link) : link[i] = "/") /\ FolderOf(p) # <<>>
    THEN NamedBy(WithMd(FolderOf(p) \o <<"/">> \o link, link))
    ELSE {}

\* (c) the notes with the stem of the link
WithStemOf(link) == {f \in Notes : LowerStem(f) = LowerStem(link)}

\* the notes a link of note p is to resolve to: none when it is unresolved
ResolvesTo(link, p) ==
    IF Literally(link) # {} THEN Literally(link)
    ELSE IF FromFolder(link, p) # {} THEN FromFolder(link, p)
    ELSE IF Cardinality(WithStemOf(link)) = 1 THEN WithStemOf(link)
    ELSE {}

\* the targets and the unresolved links the cache records for note p
ResolvedOf(p) == DOMAIN Entry(metadata_cache.resolved_links, p, NoEntries)
UnresolvedOf(p) == DOMAIN Entry(metadata_cache.unresolved_links, p, NoEntries)

\* every link is recorded as the order (a), (b), (c) decides
ResolvedInOrder ==
    \A p \in Notes :
        /\ \A link \in LinksOf(p) :
              IF ResolvesTo(link, p) = {}
              THEN link \in UnresolvedOf(p)
              ELSE link \notin UnresolvedOf(p) /\ ResolvesTo(link, p) \cap ResolvedOf(p) # {}
        /\ \A t \in ResolvedOf(p) : \E link \in LinksOf(p) : t \in ResolvesTo(link, p)
        /\ UnresolvedOf(p) \subseteq LinksOf(p)

\* the stem of the link is shared by two notes in different folders
StemSharedAcrossFolders(link) ==
    \E f \in WithStemOf(link) : \E g \in WithStemOf(link) : FolderOf(f) # FolderOf(g)

\* C21 as claimed: links resolve by the literal path, then by the path from
\* the source note's folder, then by a stem that exactly one note has; and a
\* link whose stem is shared by two notes in different folders is always
\* unresolved.
C21_ResolutionOrder ==
    /\ ResolvedInOrder
    /\ \A p \in Notes : \A link \in LinksOf(p) :
          StemSharedAcrossFolders(link) => link \in UnresolvedOf(p)

\* C21 amended: links resolve by the literal path, then by the path from the
\* source note's folder, then by a stem that exactly one note has; a link
\* whose stem is shared by two notes in different folders is unresolved
\* unless its literal path or its path from the source's folder names a note.
C21_ResolutionOrderStemLast ==
    /\ ResolvedInOrder
    /\ \A p \in Notes : \A link \in LinksOf(p) :
          (StemSharedAcrossFolders(link) /\ Literally(link) = {} /\ FromFolder(link, p) = {})
              => link \in UnresolvedOf(p)

\* d/B.md links to e/b: no note e/b.md, so the note d/e/b.md is found from the
\* source's folder, although two notes have the stem b
C21_Witness ==
    /\ files = <<NoteDB, NoteDEB>>
    /\ <<"e", "/", "b">> \in LinksOf(NoteDB)
    /\ Literally(<<"e", "/", "b">>) = {}
    /\ StemSharedAcrossFolders(<<"e", "/", "b">>)
    /\ NoteDEB \in ResolvedOf(NoteDB)

\* e/b.md links to b, a stem that e/b.md and d/B.md share: unresolved
C21_WitnessOfSharedStem ==
    /\ files = <<NoteEB, NoteDB>>
    /\ <<"b">> \in LinksOf(NoteEB)
    /\ <<"b">> \in UnresolvedOf(NoteEB)

\* d/B.md, alone in the vault, links to b: found by its stem
C21_WitnessOfStem ==
    /\ files = <<NoteDB>>
    /\ <<"b">> \in LinksOf(NoteDB)
    /\ Literally(<<"b">>) = {}
    /\ NoteDB \in ResolvedOf(NoteDB)

\* the sum of the counts of a map
RECURSIVE TotalOver(_, _)
TotalOver(counts, keys) ==
    IF keys = {} THEN 0
    ELSE counts[CHOOSE k \in keys : TRUE]
         + TotalOver(counts, keys \ {CHOOSE k \in keys : TRUE})

Total(counts) == TotalOver(counts, DOMAIN counts)

\* no note has the path, the path from the source's folder or the stem of the link
NamesNoNote(link, p) ==
    Literally(link) = {} /\ FromFolder(link, p) = {} /\ WithStemOf(link) = {}

\* C22: for every note p, every link extracted from p is recorded once, in
\* resolved_links[p] or in unresolved_links[p] and not in both; the targets
\* of resolved_links[p] are note paths of the vault as listed (stored casing),
\* the keys of unresolved_links[p] are extracted link strings; a link whose
\* path names a note resolves to it (to one of them, when the paths of two
\* notes differ in casing only), a link that names no note is unresolved.
C22_EveryLinkRecordedOnce ==
    \A p \in Notes :
        /\ ResolvedOf(p) \subseteq Notes
        /\ UnresolvedOf(p) \subseteq LinksOf(p)
        /\ Total(Entry(metadata_cache.resolved_links, p, NoEntries))
           + Total(Entry(metadata_cache.unresolved_links, p, NoEntries))
           = Cardinality(LinksOf(p))
        /\ \A link \in LinksOf(p) :
              /\ Literally(link) # {} =>
                    Literally(link) \cap ResolvedOf(p) # {} /\ link \notin UnresolvedOf(p)
              /\ NamesNoNote(link, p) => link \in UnresolvedOf(p)

\* d/B.md links to b.md, recorded under B.md as listed; B.md links to A,
\* which names no note
C22_Witness ==
    /\ files = <<NoteB, NoteDB>>
    /\ <<"b", ".", "m", "d">> \in LinksOf(NoteDB)
    /\ NoteB \in ResolvedOf(NoteDB)
    /\ <<"A">> \in LinksOf(NoteB)
    /\ <<"A">> \in UnresolvedOf(NoteB)
    /\ NoteB \in ResolvedOf(NoteB)

\* the links of the text of note p, one for each occurrence, in the order
\* extract_file_cache finds them (wiki links, then markdown links and images)
OccurrencesIn(t) ==
    WikiLinks(t, FindIter("wiki", t, 0), 1)
    \o MarkdownLinks(t, FindIter("link_or_image", t, 0), 1)

Occurrences(p) == OccurrencesIn(Entry(note_texts, p, <<>>))

\* the number of link occurrences in the text of p that resolve to t
OccurrencesResolvingTo(p, t) ==
    Cardinality({i \in 1..Len(Occurrences(p)) : t \in ResolvesTo(Occurrences(p)[i], p)})

\* the number of occurrences of the link in the text of p
OccurrencesOf(p, link) ==
    Cardinality({i \in 1..Len(Occurrences(p)) : Occurrences(p)[i] = link})

\* C23: the counts of the link graph count link occurrences:
\* resolved_links[p][t] is the number of links in the text of note p that
\* resolve to t, and unresolved_links[p][link] the number of occurrences of
\* the unresolved link in it (a note linking twice to a target has count 2).
C23_CountsAreOccurrences ==
    \A p \in Notes :
        /\ \A t \in ResolvedOf(p) :
              metadata_cache.resolved_links[p][t] = OccurrencesResolvingTo(p, t)
        /\ \A link \in UnresolvedOf(p) :
              metadata_cache.unresolved_links[p][link] = OccurrencesOf(p, link)

\* what the counts are: the number of different link strings of the note
\* that resolve to the target, and 1 for every unresolved link
C23_CountsAreDistinctLinks ==
    \A p \in Notes :
        /\ \A t \in ResolvedOf(p) :
              metadata_cache.resolved_links[p][t]
              = Cardinality({link \in LinksOf(p) : t \in ResolvesTo(link, p)})
        /\ \A link \in UnresolvedOf(p) : metadata_cache.unresolved_links[p][link] = 1

-----------------------------------------------------------------------------
(* Properties of the import *)

\* what the import wrote at its k-th file
WrittenAt(k) == import.written[k]

\* target is rel's path in the destination with the name '<stem> (import N).<ext>'
RenamedFrom(rel, target) ==
    \E idx \in 1..(Cardinality(DOMAIN fs) + 1) : target = Candidate(import.destination, rel, idx)

\* the k-th file went to a path where nothing was, with the content of its
\* source file: to its own relative path when nothing was there, and to a
\* renamed path when something was
WrittenAside(k) ==
    /\ ~WrittenAt(k).existed
    /\ is_file(fs, WrittenAt(k).target)
    /\ fs[WrittenAt(k).target].content =
           import.before[import.source \o WrittenAt(k).rel].content
    /\ WrittenAt(k).renamed <=> WrittenAt(k).conflict
    /\ IF WrittenAt(k).conflict
       THEN /\ RenamedFrom(WrittenAt(k).rel, WrittenAt(k).target)
            /\ WrittenAt(k).target # import.destination \o WrittenAt(k).rel
       ELSE WrittenAt(k).target = import.destination \o WrittenAt(k).rel

\* C24: the import overwrites no file: every file that existed when it was
\* called keeps its content, every imported file is written where nothing
\* was, under the name '<stem> (import N).<ext>' when its relative path was
\* taken in the destination, and the report counts these renames
C24_NeverOverwrites ==
    /\ \A p \in DOMAIN import.before :
           ~import.before[p].is_dir => is_file(fs, p) /\ fs[p] = import.before[p]
    /\ \A k \in 1..Len(import.written) : WrittenAside(k)
    /\ import.result = "Ok" =>
           import.report.renamed_notes =
               Cardinality({k \in 1..Len(import.written) : WrittenAt(k).conflict})

\* an import that succeeded renamed a file whose own name is of the form
\* '<stem> (import N).<ext>'
C24_Witness ==
    /\ import.result = "Ok"
    /\ \E k \in 1..Len(import.written) :
           /\ WrittenAt(k).conflict
           /\ WrittenAt(k).rel = <<NameAImport1Md>>
           /\ is_file(import.before, import.destination \o <<NameAImport1Md>>)

\* a file was renamed to a later name because the first was taken
C24_WitnessOfLaterName ==
    \E k \in 1..Len(import.written) :
        /\ WrittenAt(k).conflict
        /\ WrittenAt(k).target # Candidate(import.destination, WrittenAt(k).rel, 1)

\* the files at or under base, with their contents
FilesUnder(disk, base) ==
    {<<p, disk[p].content>> : p \in {q \in DOMAIN disk : PathStartsWith(q, base) /\ ~disk[q].is_dir}}

\* C25: the import creates, modifies and removes no file of the source vault
C25_SourceFilesUnchanged ==
    import.pc # "idle" => FilesUnder(fs, import.source) = FilesUnder(import.before, import.source)

\* an import into the source vault or into a folder inside it returns an
\* error and copies nothing
C25_InsideSourceRejected ==
    (import.pc # "idle" /\ PathStartsWith(import.destination, import.source)) =>
        /\ import.result = "Err"
        /\ import.written = <<>>
        /\ FilesUnder(fs, <<>>) = FilesUnder(import.before, <<>>)

\* an import that succeeds imported every note and image it scanned
C25_ImportedAllScanned ==
    import.result = "Ok" =>
        /\ import.report.imported_notes = import.report.scanned_notes
        /\ import.report.imported_images = import.report.scanned_images

\* the import leaves the folders of the source vault as they were, too
C25_SourceFoldersUnchanged ==
    import.pc # "idle" =>
        {p \in DOMAIN fs : PathStartsWith(p, import.source)}
            = {p \in DOMAIN import.before : PathStartsWith(p, import.source)}

-----------------------------------------------------------------------------
(* Properties of the block pass *)

\* the lines of the text that is shown
ShownLines == SplitInclusive(text)

\* the states of the block pass before each of lines, from st on
RECURSIVE BlockStates(_, _)
BlockStates(st, lines) ==
    IF lines = <<>> THEN <<>>
    ELSE <<st>> \o BlockStates(BlockStep(st, Head(lines), None, None).st, Tail(lines))

\* the state the block pass is in before the k-th line, and what it does of it
StateBefore(k) == BlockStates(BlockStart, ShownLines)[k]
StepAt(k) == BlockStep(StateBefore(k), ShownLines[k], caret_pos, None)

\* what the pass has emitted before the k-th line
RECURSIVE EmittedBefore(_)
EmittedBefore(k) == IF k <= 1 THEN <<>> ELSE EmittedBefore(k - 1) \o StepAt(k - 1).html

\* the formatted text shows the k-th line whole, escaped, under class
ShownUnder(k, class) ==
    /\ StepAt(k).html = <<SpanOpen(class)>> \o escape_html(ShownLines[k]) \o <<SpanClose>>
    /\ Len(parsed_html) >= Len(EmittedBefore(k)) + Len(StepAt(k).html)
    /\ SubSeq(parsed_html, Len(EmittedBefore(k)) + 1,
              Len(EmittedBefore(k)) + Len(StepAt(k).html)) = StepAt(k).html

\* line is, after indentation, at least n repetitions of m followed by
\* nothing but whitespace
RunOfAtLeast(line, m, n) ==
    \E i \in 0..Len(line), j \in n..Len(line) :
        /\ i + j <= Len(line)
        /\ \A p \in 1..i : line[p] \in WhiteSpace
        /\ \A p \in (i + 1)..(i + j) : line[p] = m
        /\ \A p \in (i + j + 1)..Len(line) : line[p] \in WhiteSpace

\* the k-th line is met inside a code fence
InsideFence(k) == StateBefore(k).code_fence # None

\* C29: a line met inside a code fence of marker m and run length n is shown
\* whole under the code-block class, opens no frontmatter, math or comment
\* block and no other fence, and ends the fence exactly when it is, after
\* indentation, at least n repetitions of m followed only by whitespace
C29_InsideCodeFence ==
    \A k \in 1..Len(ShownLines) :
        InsideFence(k) =>
            /\ ShownUnder(k, "hl-codeblock")
            /\ ~StepAt(k).st.in_frontmatter
            /\ ~StepAt(k).st.in_math_block
            /\ ~StepAt(k).st.in_comment_block
            /\ StepAt(k).st.code_fence \in {None, StateBefore(k).code_fence}
            /\ StepAt(k).st.code_fence = None
                   <=> RunOfAtLeast(ShownLines[k], Unwrap(StateBefore(k).code_fence).marker,
                                    Unwrap(StateBefore(k).code_fence).len)

\* a fence of four backticks holds a line of three, and the caret is in the text
C29_Witness ==
    /\ caret_pos # None
    /\ \E k \in 1..Len(ShownLines) :
           /\ InsideFence(k)
           /\ Unwrap(StateBefore(k).code_fence).len = 4
           /\ Trim(ShownLines[k]) = <<Backtick, Backtick, Backtick>>
           /\ StepAt(k).st.code_fence # None

\* a fence of backticks holds a fence of tildes, then a line of inline markup
C29_WitnessOfOtherMarker ==
    /\ Len(ShownLines) = 3
    /\ InsideFence(2) /\ InsideFence(3)
    /\ Unwrap(StateBefore(2).code_fence).marker = Backtick
    /\ Trim(ShownLines[2]) = <<"~", "~", "~">>
    /\ ShownLines[3] = <<"*", "a", "*">>

\* an indented fence with a space after it ends the fence
C29_WitnessOfClose ==
    \E k \in 1..Len(ShownLines) :
        /\ InsideFence(k)
        /\ StepAt(k).st.code_fence = None
        /\ ShownLines[k][1] = " "

\* the k-th line is blank
Blank(k) == \A p \in 1..Len(ShownLines[k]) : ShownLines[k][p] \in WhiteSpace

\* the k-th line is s, indentation and trailing whitespace aside
LineIs(k, s) ==
    \E i \in 0..Len(ShownLines[k]) :
        /\ i + Len(s) <= Len(ShownLines[k])
        /\ \A p \in 1..i : ShownLines[k][p] \in WhiteSpace
        /\ SubSeq(ShownLines[k], i + 1, i + Len(s)) = s
        /\ \A p \in (i + Len(s) + 1)..Len(ShownLines[k]) : ShownLines[k][p] \in WhiteSpace

\* the k-th line opens frontmatter
OpensFrontmatter(k) == ~StateBefore(k).in_frontmatter /\ StepAt(k).st.in_frontmatter

\* C30: frontmatter opens only at a line that is `---` and that only blank
\* lines precede, hence at most once; a line met in frontmatter is shown
\* under the frontmatter class and ends it exactly when it is `---` or `...`
C30_FrontmatterOnlyFirst ==
    /\ \A k \in 1..Len(ShownLines) :
           OpensFrontmatter(k) =>
               /\ LineIs(k, <<"-", "-", "-">>)
               /\ \A j \in 1..(k - 1) : Blank(j)
               /\ ShownUnder(k, "hl-frontmatter")
    /\ Cardinality({k \in 1..Len(ShownLines) : OpensFrontmatter(k)}) <= 1
    /\ \A k \in 1..Len(ShownLines) :
           StateBefore(k).in_frontmatter =>
               /\ ShownUnder(k, "hl-frontmatter")
               /\ ~StepAt(k).st.in_frontmatter
                      <=> (LineIs(k, <<"-", "-", "-">>) \/ LineIs(k, <<".", ".", ".">>))

\* frontmatter opened after a blank line and was closed, and a later `---`
\* did not open it again
C30_Witness ==
    /\ caret_pos # None
    /\ \E k \in 1..Len(ShownLines) :
           /\ LineIs(k, <<"-", "-", "-">>)
           /\ ~OpensFrontmatter(k)
           /\ ~StateBefore(k).in_frontmatter
           /\ \E j \in 1..(k - 1) : OpensFrontmatter(j)

\* a `---` line after a line of text opened nothing
C30_WitnessOfLateLine ==
    /\ Len(ShownLines) >= 2
    /\ ~Blank(1)
    /\ ~LineIs(1, <<"-", "-", "-">>)
    /\ LineIs(2, <<"-", "-", "-">>)
    /\ ~OpensFrontmatter(2)

\* frontmatter opened at the second line, after a blank one
C30_WitnessOfBlankFirst ==
    /\ Len(ShownLines) >= 2
    /\ Blank(1)
    /\ OpensFrontmatter(2)

\* the block states that are active in a state of the pass
ActiveBlocks(st) ==
    {b \in {"code_fence", "math", "frontmatter", "comment"} :
         \/ b = "code_fence" /\ st.code_fence # None
         \/ b = "math" /\ st.in_math_block
         \/ b = "frontmatter" /\ st.in_frontmatter
         \/ b = "comment" /\ st.in_comment_block}

\* the k-th line holds an odd number of `%%` tokens
OddTokens(k) == CountMatches(WithoutNewline(ShownLines[k]), <<"%", "%">>, 0) % 2 = 1

\* the k-th line is met in the normal state and opens no fence, math block
\* or frontmatter
HandledNormally(k) ==
    /\ ActiveBlocks(StateBefore(k)) = {}
    /\ ActiveBlocks(StepAt(k).st) \subseteq {"comment"}

\* C31: a line handled in the normal state opens a comment block exactly when
\* it holds an odd number of `%%` tokens; a line met in a comment block is
\* shown whole under the comment class, and it ends the block, leaving the
\* pass in the normal state, exactly when it holds an odd number of tokens;
\* a line that opens a fence, a math block or frontmatter opens no comment
\* block.
C31_CommentBlock ==
    \A k \in 1..Len(ShownLines) :
        /\ HandledNormally(k) => (StepAt(k).st.in_comment_block <=> OddTokens(k))
        /\ StateBefore(k).in_comment_block =>
               /\ ShownUnder(k, "hl-comment")
               /\ ActiveBlocks(StepAt(k).st) = IF OddTokens(k) THEN {} ELSE {"comment"}
        /\ (ActiveBlocks(StateBefore(k)) = {} /\ ~HandledNormally(k)) =>
               ~StepAt(k).st.in_comment_block

\* a comment block is opened by the first line, a line with two tokens is met
\* inside and leaves it open, and the third line ends it
C31_Witness ==
    /\ caret_pos # None
    /\ Len(ShownLines) = 3
    /\ HandledNormally(1) /\ OddTokens(1)
    /\ StateBefore(2).in_comment_block
    /\ CountMatches(WithoutNewline(ShownLines[2]), <<"%", "%">>, 0) = 2
    /\ StateBefore(3).in_comment_block
    /\ OddTokens(3)
    /\ ActiveBlocks(StepAt(3).st) = {}

\* a fence is opened by a line that holds one token
C31_WitnessOfFence ==
    \E k \in 1..Len(ShownLines) :
        /\ ActiveBlocks(StateBefore(k)) = {}
        /\ OddTokens(k)
        /\ StepAt(k).st.code_fence # None

\* C38: after every line at most one block state is active; a block state
\* becomes active only at a line met in the normal state, and a line met in a
\* block state changes no other block state.
C38_OneBlockState ==
    \A k \in 1..Len(ShownLines) :
        /\ Cardinality(ActiveBlocks(StepAt(k).st)) <= 1
        /\ ActiveBlocks(StateBefore(k)) # {} =>
               ActiveBlocks(StepAt(k).st) \subseteq ActiveBlocks(StateBefore(k))

\* each of the four block states is met in one text or another: here a fence
\* holds the delimiters of the three others
C38_Witness ==
    /\ caret_pos # None
    /\ Len(ShownLines) = 3
    /\ ActiveBlocks(StateBefore(2)) = {"code_fence"}
    /\ ShownLines[2] \in {<<"$", "$", "\n">>, <<"%", "%", "\n">>, <<"-", "-", "-", "\n">>}
    /\ ActiveBlocks(StateBefore(3)) = {"code_fence"}

\* a math block holds a fence and a comment token
C38_WitnessOfMath ==
    /\ Len(ShownLines) = 3
    /\ ActiveBlocks(StateBefore(2)) = {"math"}
    /\ code_fence_open(WithoutNewline(ShownLines[2])) # None
    /\ ActiveBlocks(StateBefore(3)) = {"math"}
    /\ OddTokens(3)
    /\ ActiveBlocks(StepAt(3).st) = {"math"}

\* a comment block holds a fence
C38_WitnessOfComment ==
    /\ Len(ShownLines) = 3
    /\ ActiveBlocks(StateBefore(2)) = {"comment"}
    /\ code_fence_open(WithoutNewline(ShownLines[2])) # None
    /\ ~OddTokens(2)
    /\ ActiveBlocks(StateBefore(3)) = {"comment"}

-----------------------------------------------------------------------------
(* Properties of what the handlers defer *)

\* the name of the timer that is pending when one is
PendingTimeout == CHOOSE timeout \in timeouts : TRUE

\* the timer is the one tracked, and it carries the path and the latest text
\* of the open note
CarriesLatest(timeout) ==
    /\ save_timeout_id = Some(timeout.id)
    /\ timeout.file_path = FilePath(vault_path, current_file)
    /\ timeout.new_text = note_texts[current_file]
    /\ timeout.new_text = text

\* nothing is left to save: no edit was made yet, or the last write holds the
\* latest text of the open note
AllWritten ==
    \/ write_calls = <<>> /\ revision = 0
    \/ /\ write_calls # <<>>
       /\ write_calls[Len(write_calls)] =
              [path |-> FilePath(vault_path, current_file), content |-> note_texts[current_file]]

Debounced ==
    /\ Cardinality(timeouts) <= 1
    /\ timeouts # {} => CarriesLatest(PendingTimeout)
    /\ timeouts = {} => AllWritten

C26_WitnessOfPending ==
    /\ revision = 2
    /\ write_calls = <<>>
    /\ Cardinality(timeouts) = 1
    /\ note_texts[current_file] = text
    /\ text # EmbedOfImage

\* the callbacks of the kind that were requested after the first of the queue
\* and have not run
LaterPending(kind) == \E k \in 2..Len(frames) : frames[k].kind = kind

\* C27: stale callbacks are discarded.  A callback takes effect exactly if no
\* callback of its kind was scheduled after it; a restore callback that is
\* stale leaves the selection of the view alone, and a sync callback that is
\* stale leaves the editor alone and schedules no restore.
C27_StaleCallbacksDiscarded ==
    [][frame_ran' # frame_ran =>
           /\ frame_ran'.kind = Head(frames).kind
           /\ (frame_ran'.applied <=> ~LaterPending(Head(frames).kind))
           /\ (~frame_ran'.applied \/ frame_ran'.kind # "restore") =>
                  UNCHANGED dom_selection
           /\ ~frame_ran'.applied =>
                  UNCHANGED <<editor, selection_restore_ticket, selection_sync_ticket>>
           /\ (frame_ran'.applied /\ frame_ran'.kind = "restore") =>
                  dom_selection' = Some(Head(frames).selection)]_vars

\* a restore callback ran after a later restore was scheduled, and was discarded
C27_Witness ==
    /\ frame_ran.kind = "restore"
    /\ ~frame_ran.applied
    /\ frame_ran.expected_ticket < selection_restore_ticket

\* the same for a sync callback
C27_WitnessOfSync ==
    /\ frame_ran.kind = "sync"
    /\ ~frame_ran.applied
    /\ frame_ran.expected_ticket < selection_sync_ticket

\* the restore scheduled last ran and took effect, after an earlier one
C27_WitnessOfLatest ==
    /\ frame_ran.kind = "restore"
    /\ frame_ran.applied
    /\ frame_ran.expected_ticket >= 2
    /\ dom_selection = Some(selection)

\* the targets of the open note that have a preview in the cache
WithPreview ==
    {target \in Range(collect_image_targets_for_note(text)) :
         /\ ~looks_like_external_url(target)
         /\ resolve_image_preview_html(
                Some(ImageRenderContext(vault_path, current_file, image_preview_cache)),
                target, <<>>) # None}

\* the text of the open note formatted against the cache as it is, with the
\* caret where the editor has it
FormattedAgainstCache ==
    {highlight_markdown_for_editor(text, caret, vault_path, current_file, image_preview_cache) :
         caret \in {None, caret_pos, Some(Selection_clamp(selection, Len(text)).start)}}

\* no composition is running and nothing is pending that the application
\* would act on without the user
Settled ==
    /\ ~is_composing
    /\ frames = <<>>
    /\ timeouts = {}
    /\ image_preview_loading = {}

\* C28: a local image of the open note whose bytes are in the cache is shown.
\* It is not: an image that arrives during a composition is not formatted in,
\* and the end of a composition in which nothing was typed formats nothing.
C28_PreviewDisplayed == (Settled /\ WithPreview # {}) => parsed_html \in FormattedAgainstCache

\* outside a composition the arrival of an image formats the open note
\* against the cache that holds it
C28_FormattedOnArrival ==
    [][(~is_composing /\ image_preview_cache' # image_preview_cache) =>
           parsed_html' =
               highlight_markdown_for_editor(
                   text, Some(Selection_clamp(selection, Len(text)).start), vault_path,
                   current_file, image_preview_cache')]_vars

\* an image of the open note arrived and its preview is shown
C28_WitnessOfPreview ==
    /\ WithPreview # {}
    /\ parsed_html \in FormattedAgainstCache
    /\ parsed_html #
           highlight_markdown_for_editor(text, caret_pos, vault_path, current_file, NoEntries)

\* what a full editor update renders, rebuilds and schedules
Updated ==
    <<parsed_html, vault, save_timeout_id, timeouts, write_calls, selection_restore_ticket>>

\* the step leaves alone all but the snapshot, the content and the caret, the
\* flag of the composition, the selection of the view and the image loads
\* that the text asks for
OnlySnapshotAndCaret ==
    UNCHANGED <<Updated, host, vault_path, selection_sync_ticket, frames, frame_ran,
                is_composing, image_preview_cache, image_preview_failed>>

\* the step is one full editor update with the text as it was before the step
OneFullUpdate ==
    /\ text' = text
    /\ caret_pos' = Some(selection'.start)
    /\ parsed_html' =
           highlight_markdown_for_editor(text, caret_pos', vault_path, current_file,
                                         image_preview_cache)
    /\ note_texts' = Insert(note_texts, current_file, text)
    /\ metadata_cache' = build_metadata_cache(Insert(note_texts, current_file, text), files)
    /\ timeouts' = Cleared(timeouts, save_timeout_id)
                       \cup {Timeout(Unwrap(save_timeout_id'), FilePath(vault_path, current_file),
                                     text)}
    /\ Cardinality(timeouts') = Cardinality(Cleared(timeouts, save_timeout_id)) + 1
    /\ selection_restore_ticket' = selection_restore_ticket + 1
    /\ Len(frames') = Len(frames) + 1
    /\ UNCHANGED write_calls

\* the step changes nothing but the flag that tells a composition is running
NothingUpdated ==
    UNCHANGED <<editor, vault, host, vault_path, save_timeout_id, timeouts, write_calls,
                selection_restore_ticket, selection_sync_ticket, frames, frame_ran,
                dom_selection, composition_dirty, image_preview_cache,
                image_preview_loading, image_preview_failed>>

C40_NoDirtyEnd == [][~(is_composing /\ ~is_composing' /\ composition_dirty)]_vars

\* no composition that saw no input event ends
C40_NoCleanEnd == [][~(is_composing /\ ~is_composing' /\ ~composition_dirty)]_vars

-----------------------------------------------------------------------------
(* Properties of the image previews *)

\* the image targets of the open note
TargetsOfNote == Range(collect_image_targets_for_note(text))

\* the folder of the open note, "" for the root
FolderOfNote ==
    IF \E i \in 1..Len(current_file) : current_file[i] = "/"
    THEN Slice(current_file, 0, SetMax({i \in 1..Len(current_file) : current_file[i] = "/"}) - 1)
    ELSE <<>>

\* the target is for the vault root alone: it starts with a slash, or the
\* note is in the root
RootOnly(target) == StartsWith(target, "/") \/ FolderOfNote = <<>>

\* the target resolved in the folder of the note, and at the vault root
InNoteFolder(target) ==
    collapse_path(vault_path \o <<"/">> \o FolderOfNote \o <<"/">> \o target)

AtVaultRoot(target) == collapse_path(vault_path \o <<"/">> \o target)

\* the source the preview of the target is to have: that of the path in the
\* note's folder if the cache holds it, else that of the path at the root if
\* the cache holds it, else none
SourceOf(target) ==
    IF ~RootOnly(target) /\ InNoteFolder(target) \in DOMAIN image_preview_cache
    THEN Some(image_preview_cache[InNoteFolder(target)])
    ELSE IF AtVaultRoot(target) \in DOMAIN image_preview_cache
    THEN Some(image_preview_cache[AtVaultRoot(target)])
    ELSE None

\* the formatter resolves the target to source, and the view shows it so
PreviewIs(target, source) ==
    /\ resolve_image_preview_html(
           Some(ImageRenderContext(vault_path, current_file, image_preview_cache)),
           target, <<>>)
         = IF source = None THEN None ELSE Some(ImagePreview(Unwrap(source), <<>>))
    /\ IF source = None
       THEN parsed_html = highlight_markdown(text, caret_pos, None)
       ELSE Contains(parsed_html, ImagePreview(Unwrap(source), <<>>))

\* C33: the preview of a local image is that of the path in the note's folder
\* if the cache holds it, else that of the path at the vault root if the
\* cache holds it; if it holds neither, no preview is shown and the markup
\* is shown as it is without previews.
C33_NoteFolderFirst == \A target \in TargetsOfNote : PreviewIs(target, SourceOf(target))

\* both paths of the target are in the cache
BothCached(target) ==
    /\ ~RootOnly(target)
    /\ InNoteFolder(target) # AtVaultRoot(target)
    /\ {InNoteFolder(target), AtVaultRoot(target)} \subseteq DOMAIN image_preview_cache

\* the same where at most one of the two paths is in the cache
C33_HoldsUnlessBothCached ==
    \A target \in TargetsOfNote : BothCached(target) \/ PreviewIs(target, SourceOf(target))

\* both paths are in the cache and the preview is that of the note's folder,
\* which is the smaller string
C33_WitnessOfFolderFirst ==
    \E target \in TargetsOfNote :
        /\ BothCached(target)
        /\ PreviewIs(target, Some(image_preview_cache[InNoteFolder(target)]))

\* the path is the vault root or below it
InsideVault(path) ==
    /\ path = vault_path \/ HasAt(path, 0, vault_path \o <<"/">>)
    /\ <<".", ".">> \notin Range(SplitOn(path, "/"))

\* C36: every candidate of every target of the open note is inside the
\* vault, and so is every path that is loaded for a preview.
C36_CandidatesInsideVault ==
    /\ \A target \in TargetsOfNote :
           \A candidate \in Range(image_local_candidates(vault_path, current_file, target)) :
               InsideVault(candidate)
    /\ \A path \in image_preview_loading \cup image_preview_failed
                     \cup DOMAIN image_preview_cache :
           InsideVault(path)

\* the same for the targets that do not start with a slash
C36_HoldsForRelativeTargets ==
    (\E target \in TargetsOfNote : StartsWith(Trim(target), "/")) \/ C36_CandidatesInsideVault

\* a target that leaves the vault has no candidate, from a note in a folder
C36_WitnessOfFiltered ==
    /\ FolderOfNote # <<>>
    /\ \E target \in TargetsOfNote :
           /\ ~StartsWith(target, "/")
           /\ ~InsideVault(AtVaultRoot(target))
           /\ image_local_candidates(vault_path, current_file, target) = <<>>
    /\ frame_ran = NoFrame

-----------------------------------------------------------------------------
(* Properties of the notes on the host *)

\* the text the host holds for a note of the vault, None when it holds none
OnDisk(filename) ==
    IF is_file(fs, DiskPath(FilePath(vault_path, filename)))
    THEN Some(fs[DiskPath(FilePath(vault_path, filename))].content)
    ELSE None

\* C34: every edit is persisted in the end, also when a second note is edited
\* before the save timer of the first has fired: once no save timer is
\* pending, the host holds for every note the text the application holds
C34_EditsPersisted ==
    timeouts = {} => \A filename \in DOMAIN note_texts : OnDisk(filename) = Some(note_texts[filename])

\* C35: a note that was deleted or renamed is not created again by a pending
\* save: no call of write_file creates a file
C35_NoSaveRecreates ==
    [][write_calls' # write_calls => DOMAIN fs' \subseteq DOMAIN fs]_vars

=============================================================================
